---- MODULE Spec2Model ----
(***************************************************************************)
(* A model of the decision-and-verification engine of android-automation:  *)
(* the selector resolver (actuator.find_by_selector over                   *)
(* selector_resolver.resolve_selector), the termination evaluators         *)
(* (run_goal.goal_satisfied, termination.evaluate_termination), the        *)
(* rule-based planner (planner.plan_next_action) and the verifier          *)
(* (verifier.verify_and_retry).                                            *)
(*                                                                         *)
(* Python strings are TLA+ strings; None is the empty string where the     *)
(* code only tests truthiness (x or ""), and the record None otherwise.    *)
(***************************************************************************)
EXTENDS Integers, Sequences, FiniteSets, TLC

VARIABLES
    pc,          \* position of the call under way
    state_norm,  \* the snapshot: the ordered elements of normalize()
    obs,         \* the observation's package_activity ("" for None)
    sel,         \* the resolver's target {by, value}
    found,       \* the resolver's result: an element or None
    termination, \* the termination spec: a function from its keys
    gs,          \* the result of goal_satisfied
    et,          \* the result of evaluate_termination
    goal,        \* the planner's goal text
    cfg,         \* the planner's config
    history,     \* the planner's history: entries with their plan
    plan,        \* the planner's result: an action, or PlannerRaised
    action,      \* the verifier's action argument
    expect,      \* the verifier's expectation: a function from its keys, or None
    max_retries, \* the verifier's retry budget
    attempt,     \* the verifier's local attempt
    observed,    \* the observations made by the verifier, in order
    sleeps,      \* the backoffs slept by the verifier, in tenths of a second
    calls,       \* the adb_wrapper primitives invoked by the verifier, in order
    result,      \* the verifier's return value
    step,        \* the control loop's cycle: range(1, max_steps + 1)
    max_steps,   \* --max-steps
    planner,     \* the planner selected at start-up
    llm_verify,  \* --llm-verify, after start-up
    outcome,     \* how the run ended: "SUCCESS" or "exit(n)" ("": running)
    trace,       \* the collaborator calls of the run, in order
    replan,      \* the result of a second call of the planner
    logger,      \* the run log: its file, open or closed, and the records written
    device       \* the screen of a device that only the run's actions change;
                 \* None: the device shows a screen of its own at each observation

resolverVars == <<sel, found>>
terminationVars == <<termination, gs, et>>
plannerVars == <<goal, cfg, history, plan>>
verifierVars == <<action, expect, max_retries, attempt, observed, sleeps, calls, result>>
loopVars ==
    <<step, max_steps, planner, llm_verify, outcome, trace, replan, logger, device>>
vars ==
    <<pc, state_norm, obs, resolverVars, terminationVars, plannerVars, verifierVars,
      loopVars>>

(***************************************************************************)
(* Bounds of the model.                                                    *)
(***************************************************************************)
MaxElems == 2
MaxSteps == 2

(***************************************************************************)
(* Python string primitives.                                               *)
(***************************************************************************)
None == [none |-> TRUE]

\* `k in d` for a dict d that may be None
Has(t, k) == t # None /\ k \in DOMAIN t

\* the variables of a component no call of which is under way
ResolverIdle == sel = None /\ found = None
LoopIdle ==
    /\ step = 0 /\ max_steps = 0 /\ planner = "" /\ llm_verify = FALSE
    /\ outcome = "" /\ trace = <<>> /\ replan = None /\ logger = None
    /\ device = None
TerminationIdle == termination = None /\ gs = FALSE /\ et = None
PlannerIdle == goal = "" /\ cfg = None /\ history = <<>> /\ plan = None
VerifierIdle ==
    /\ action = None /\ expect = None /\ max_retries = 0 /\ attempt = 0
    /\ observed = <<>> /\ sleeps = <<>> /\ calls = <<>> /\ result = None

LowerChar(c) ==
    CASE c = "A" -> "a" [] c = "B" -> "b" [] c = "C" -> "c" [] c = "D" -> "d"
      [] c = "E" -> "e" [] c = "F" -> "f" [] c = "G" -> "g" [] c = "H" -> "h"
      [] c = "I" -> "i" [] c = "J" -> "j" [] c = "K" -> "k" [] c = "L" -> "l"
      [] c = "M" -> "m" [] c = "N" -> "n" [] c = "O" -> "o" [] c = "P" -> "p"
      [] c = "Q" -> "q" [] c = "R" -> "r" [] c = "S" -> "s" [] c = "T" -> "t"
      [] c = "U" -> "u" [] c = "V" -> "v" [] c = "W" -> "w" [] c = "X" -> "x"
      [] c = "Y" -> "y" [] c = "Z" -> "z" [] OTHER -> c

RECURSIVE Lower(_)
Lower(s) == IF s = "" THEN "" ELSE LowerChar(Head(s)) \o Lower(Tail(s))

IsSpace(c) == c \in {" ", "\t", "\n", "\r"}

RECURSIVE LStrip(_)
LStrip(s) == IF s # "" /\ IsSpace(Head(s)) THEN LStrip(Tail(s)) ELSE s

RECURSIVE RStrip(_)
RStrip(s) ==
    IF s # "" /\ IsSpace(SubSeq(s, Len(s), Len(s)))
    THEN RStrip(SubSeq(s, 1, Len(s) - 1))
    ELSE s

Strip(s) == RStrip(LStrip(s))

\* Python's `n in h` on strings
IsSub(n, h) ==
    \E i \in 1..(Len(h) - Len(n) + 1) : SubSeq(h, i, i + Len(n) - 1) = n

\* " ".join([a, b])
JoinSp(a, b) == a \o " " \o b

(***************************************************************************)
(* normalizer.py: elements and the snapshot.                               *)
(***************************************************************************)
\* str() of a bounds list, as in f"{...}" and str(e.get("bounds"))
PyListStr(b) ==
    "[" \o ToString(b[1]) \o ", " \o ToString(b[2]) \o ", "
        \o ToString(b[3]) \o ", " \o ToString(b[4]) \o "]"

\* the bounds attribute of the dump, "[l,t][r,b]"
BoundsAttr(b) ==
    "[" \o ToString(b[1]) \o "," \o ToString(b[2]) \o "]["
        \o ToString(b[3]) \o "," \o ToString(b[4]) \o "]"

\* sha1_of(f"{resource_id}|{text}|{bounds_s}"); the hash is taken to be
\* collision-free, so it is modelled by the string it hashes
ElementId(rid, text, b) == rid \o "|" \o text \o "|" \o BoundsAttr(b)

Element(rid, text, desc, clazz, b, clickable) ==
    [element_id |-> ElementId(rid, text, b), resource_id |-> rid, text |-> text,
     content_desc |-> desc, class |-> clazz, bounds |-> b,
     clickable |-> clickable,
     center |-> <<(b[1] + b[3]) \div 2, (b[2] + b[4]) \div 2>>]

\* by_id = {e["element_id"]: e for e in elements}: the last element wins
ById(elems, id) ==
    LET idx == {i \in 1..Len(elems) : elems[i].element_id = id}
    IN  IF idx = {} THEN None
        ELSE elems[CHOOSE i \in idx : \A j \in idx : j <= i]

(***************************************************************************)
(* selector_resolver.py                                                    *)
(***************************************************************************)
\* _norm(s) = (s or "").strip()
Norm(s) == Strip(s)

Min(S) == CHOOSE x \in S : \A y \in S : x <= y
Max(S) == CHOOSE x \in S : \A y \in S : y <= x

\* the indices of the elements that satisfy P, and the first of them (0: none)
Indices(elems, P(_)) == {i \in 1..Len(elems) : P(elems[i])}
FirstOf(S) == IF S = {} THEN 0 ELSE Min(S)
FirstIdx(elems, P(_)) == FirstOf(Indices(elems, P))
ElemAt(elems, i) == IF i = 0 THEN None ELSE elems[i]

\* difflib.SequenceMatcher(None, a, b) without junk (autojunk needs 200
\* characters): positions are 1-based and both ends inclusive
RECURSIVE MatchLenAt(_, _, _, _, _, _)
MatchLenAt(a, b, i, j, ahi, bhi) ==
    IF i > ahi \/ j > bhi \/ SubSeq(a, i, i) # SubSeq(b, j, j) THEN 0
    ELSE 1 + MatchLenAt(a, b, i + 1, j + 1, ahi, bhi)

\* find_longest_match: the longest block, the earliest in a, then in b
FindLongestMatch(a, b, alo, ahi, blo, bhi) ==
    LET Earliest(longest, best) ==
            LET First(i) == <<i, Min({p[2] : p \in {q \in longest : q[1] = i}}), best>>
            IN  First(Min({p[1] : p \in longest}))
        Longest(len, best) ==
            IF best = 0 THEN <<alo, blo, 0>>
            ELSE Earliest({p \in DOMAIN len : len[p] = best}, best)
        Best(len) == Longest(len, Max({0} \cup {len[p] : p \in DOMAIN len}))
    IN  Best([p \in (alo..ahi) \X (blo..bhi) |->
                 MatchLenAt(a, b, p[1], p[2], ahi, bhi)])

\* get_matching_blocks: the sum of the sizes of the blocks
RECURSIVE MatchedChars(_, _, _, _, _, _)
MatchedChars(a, b, alo, ahi, blo, bhi) ==
    LET Around(i, j, k) ==
            IF k = 0 THEN 0
            ELSE k
                 + (IF alo < i /\ blo < j
                    THEN MatchedChars(a, b, alo, i - 1, blo, j - 1) ELSE 0)
                 + (IF i + k <= ahi /\ j + k <= bhi
                    THEN MatchedChars(a, b, i + k, ahi, j + k, bhi) ELSE 0)
        Block(m) == Around(m[1], m[2], m[3])
    IN  Block(FindLongestMatch(a, b, alo, ahi, blo, bhi))

\* ratio() = 2.0 * M / T as the pair <<2M, T>> (T > 0 where it is used)
Ratio(a, b) == <<2 * MatchedChars(a, b, 1, Len(a), 1, Len(b)), Len(a) + Len(b)>>

\* no floor
RatioAnything(r) == r[2] > 0

\* ratio > 0.6
RatioAboveFloor(r) == 10 * r[1] > 6 * r[2]

\* ratio >= 0.6
RatioAtLeastFloor(r) == 10 * r[1] >= 6 * r[2]

\* blob = " ".join([_norm(text), _norm(content_desc)]).strip()
Blob(e) == Strip(JoinSp(Norm(e.text), Norm(e.content_desc)))

FuzzyContains(e, val) == IsSub(Lower(Norm(val)), Lower(Blob(e)))
FuzzyRatio(e, val) == Ratio(Lower(Blob(e)), Lower(Norm(val)))

\* contains or ratio >= 0.6, for an element whose blob is not empty
FuzzyQualifies(e, val) ==
    /\ Blob(e) # ""
    /\ FuzzyContains(e, val) \/ RatioAtLeastFloor(FuzzyRatio(e, val))

\* ratio + (0.1 if contains else 0.0), as <<num, den, short>>: the fraction,
\* and whether the double the addition yields lies below the double of the
\* fraction.  0.1 is not a double, and among the sums that a ratio of two
\* strings of up to 60 characters together can equal, those of 2/3, 7/10
\* and 11/15 come out one step short (0.7 + 0.1 is 0.7999999999999999).
ScoreOf(r, contains) ==
    LET Short == \E q \in {<<2, 3>>, <<7, 10>>, <<11, 15>>} :
                     r[1] * q[2] = q[1] * r[2]
    IN  <<10 * r[1] + (IF contains THEN r[2] ELSE 0), 10 * r[2], contains /\ Short>>
FuzzyScore(e, val) == ScoreOf(FuzzyRatio(e, val), FuzzyContains(e, val))

\* the comparison of the two doubles
ScoreLess(s, t) ==
    \/ s[1] * t[2] < t[1] * s[2]
    \/ s[1] * t[2] = t[1] * s[2] /\ s[3] /\ ~t[3]

\* the first of the candidates (the domain of score) with the highest score
TopScore(score) ==
    FirstOf({i \in DOMAIN score :
                \A k \in DOMAIN score : ~ScoreLess(score[i], score[k])})

\* candidates.sort(key=score, reverse=True)[0]: the sort is stable, so the
\* first of the candidates with the highest score (0: no candidate)
FuzzyBest(elems, val) ==
    TopScore([i \in {k \in 1..Len(elems) : FuzzyQualifies(elems[k], val)} |->
                 FuzzyScore(elems[i], val)])

NoSpaces(s) ==
    LET F[i \in 0..Len(s)] ==
            IF i = 0 THEN ""
            ELSE IF SubSeq(s, i, i) = " " THEN F[i - 1]
                 ELSE F[i - 1] \o SubSeq(s, i, i)
    IN  F[Len(s)]

\* the exact tier of resolve_selector for the discriminant by (0: no match)
ResolveExactIdx(elems, by, val) ==
    CASE by = "resource-id" ->
            LET P(e) == Norm(e.resource_id) = Norm(val) IN FirstIdx(elems, P)
      [] by = "text" ->
            LET P(e) == Norm(e.text) = Norm(val) IN FirstIdx(elems, P)
      [] by = "content-desc" ->
            LET P(e) == Norm(e.content_desc) = Norm(val) IN FirstIdx(elems, P)
      [] by = "bounds" ->
            LET P(e) == \/ PyListStr(e.bounds) = val
                        \/ NoSpaces(PyListStr(e.bounds)) = NoSpaces(val)
            IN  FirstIdx(elems, P)
      [] OTHER -> 0

resolve_selector(elems, by, val) ==
    LET Exact(i) == IF i # 0 THEN elems[i] ELSE ElemAt(elems, FuzzyBest(elems, val))
        Tiers(e) == IF by = "element_id" /\ e # None THEN e
                    ELSE Exact(ResolveExactIdx(elems, by, val))
    IN  Tiers(ById(elems, val))

(***************************************************************************)
(* actuator.py: find_by_selector                                           *)
(***************************************************************************)
Contains(outer, inner) ==
    /\ outer[1] <= inner[1]
    /\ outer[2] <= inner[2]
    /\ outer[3] >= inner[3]
    /\ outer[4] >= inner[4]

\* clickable_wrapper(inner_bounds): the first clickable element around it
clickable_wrapper(elems, inner) ==
    LET P(e) == e.clickable /\ Contains(e.bounds, inner)
    IN  ElemAt(elems, FirstIdx(elems, P))

\* `w or e`
Or(w, e) == IF w # None THEN w ELSE e
WrapperOr(elems, e) == Or(clickable_wrapper(elems, e.bounds), e)

\* ast.literal_eval(value) == e["bounds"], for a value that starts with "["
\* and is a list of integers written with or without spaces
BoundsLiteralIs(value, b) ==
    /\ Strip(value) # "" /\ Head(Strip(value)) = "["
    /\ NoSpaces(value) = NoSpaces(PyListStr(b))

\* a tier of find_by_selector: the element at i, or its wrapper, when the
\* tier has a hit (i # 0), and the tiers below otherwise
Tier(elems, i, wrap, below) ==
    IF i = 0 THEN below
    ELSE <<TRUE, IF wrap THEN WrapperOr(elems, elems[i]) ELSE elems[i]>>

\* find_by_selector with the substring tier of `text` tried before the exact
\* tier
FindOwnTiersLooseFirst(elems, by, value) ==
    LET SA(e) == IsSub(Lower(Strip(value)), Lower(Strip(e.text)))
    IN  IF by = "text" THEN Tier(elems, FirstIdx(elems, SA), FALSE, <<FALSE, None>>)
        ELSE <<FALSE, None>>

\* find_by_selector without the pass that prefers a clickable exact match
FindOwnTiersNoPreference(elems, by, value) ==
    LET PA(e) == CASE by = "resource-id" -> e.resource_id = value
                   [] by = "text" -> Strip(e.text) = Strip(value)
                   [] by = "content-desc" -> e.content_desc = value
                   [] OTHER -> FALSE
    IN  Tier(elems, FirstIdx(elems, PA), FALSE, <<FALSE, None>>)

\* the tiers of find_by_selector that return on their own; <<FALSE, None>>
\* when the call falls through to resolve_selector
FindOwnTiers(elems, by, value) ==
    CASE by = "resource-id" ->
            LET PC(e) == e.resource_id = value /\ e.clickable
                PA(e) == e.resource_id = value
            IN  Tier(elems, FirstIdx(elems, PC), FALSE,
                Tier(elems, FirstIdx(elems, PA), FALSE, <<FALSE, None>>))
      [] by = "element_id" -> <<TRUE, ById(elems, value)>>
      [] by = "text" ->
            LET val == Strip(value)
                low == Lower(val)
                PC(e) == Strip(e.text) = val /\ e.clickable
                PA(e) == Strip(e.text) = val
                SC(e) == val # "" /\ e.clickable /\ IsSub(low, Lower(Strip(e.text)))
                SA(e) == val # "" /\ IsSub(low, Lower(Strip(e.text)))
            IN  Tier(elems, FirstIdx(elems, PC), FALSE,
                Tier(elems, FirstIdx(elems, PA), TRUE,
                Tier(elems, FirstIdx(elems, SC), FALSE,
                Tier(elems, FirstIdx(elems, SA), TRUE, <<FALSE, None>>))))
      [] by = "content-desc" ->
            LET PC(e) == e.content_desc = value /\ e.clickable
                PA(e) == e.content_desc = value
            IN  Tier(elems, FirstIdx(elems, PC), FALSE,
                Tier(elems, FirstIdx(elems, PA), TRUE, <<FALSE, None>>))
      [] by = "bounds" ->
            LET PB(e) == BoundsLiteralIs(value, e.bounds)
            IN  Tier(elems, FirstIdx(elems, PB), FALSE, <<FALSE, None>>)
      [] OTHER -> <<FALSE, None>>

find_by_selector(elems, by, value) ==
    LET Own(r) == IF r[1] THEN r[2] ELSE resolve_selector(elems, by, value)
    IN  Own(FindOwnTiers(elems, by, value))

(***************************************************************************)
(* planner.py                                                              *)
(*                                                                         *)
(* A config is a record [app_component, package, allowed_packages,         *)
(* plan_hints, fallback_scroll_if_not_found, fallback_scroll_args]; an     *)
(* absent string is "", an absent list <<>>, an absent dict EmptyArgs and  *)
(* fallback_scroll_if_not_found is "true", "false" or "unset".  A hint is  *)
(* a record of all the keys plan_next_action reads, with `keys` the set of *)
(* the when_* keys it holds.  A pattern of when_goal_regex is the literal  *)
(* text L of the regular expression L(.+).  An action is a record with     *)
(* the keys of the Python dict: action, and target and args when present.  *)
(***************************************************************************)
EmptyArgs == [k \in {} |-> ""]

ActionEnum ==
    {"tap", "type", "swipe", "back", "scroll", "open_app", "wait", "keyevent"}
ByEnum ==
    {"resource-id", "text", "content-desc", "bounds", "element_id", "component"}

\* a validator that accepts everything
SchemaAnything(a) == TRUE

\* Draft7Validator(ACTION_SCHEMA) finds no error in the action (a target
\* whose value is missing or not a string is one without value)
SchemaValid(a) ==
    /\ Has(a, "action") /\ a.action \in ActionEnum
    /\ Has(a, "target") =>
           /\ Has(a.target, "by") /\ Has(a.target, "value")
           /\ a.target.by \in ByEnum

\* _find_first_present(state_norm, candidates)
find_first_present(elems, candidates) ==
    LET P(c) == find_by_selector(elems, c.by, c.value) # None
    IN  ElemAt(candidates, FirstIdx(candidates, P))

\* _goal_contains_any(goal, words)
goal_contains_any(aGoal, words) ==
    \E i \in 1..Len(words) : IsSub(Lower(words[i]), Lower(aGoal))

\* re.search(L(.+), goal, re.IGNORECASE): the leftmost place where L stands
\* with at least one character after it (0: no match); group 1 runs from
\* there to the end of the goal
RegexStart(aGoal, lit) ==
    FirstOf({i \in 1..Len(aGoal) :
                /\ i + Len(lit) <= Len(aGoal)
                /\ Lower(SubSeq(aGoal, i, i + Len(lit) - 1)) = Lower(lit)})

goal_regex(aGoal, lit) == RegexStart(aGoal, lit) # 0

\* m.group(n) for n in 0..1; the pattern has one group
RegexGroup(aGoal, lit, n) ==
    IF n = 0 THEN SubSeq(aGoal, RegexStart(aGoal, lit), Len(aGoal))
    ELSE SubSeq(aGoal, RegexStart(aGoal, lit) + Len(lit), Len(aGoal))

GroupCount == 1

\* the packages that count as the target app: primary + allowed_packages
AllowedPackages(aCfg) ==
    (IF aCfg.package # "" THEN <<aCfg.package>> ELSE <<>>) \o aCfg.allowed_packages

\* a guard that knows the primary package only
InPrimaryPackage(act, aCfg) == aCfg.package # "" /\ IsSub(aCfg.package, act)

InAllowedPackage(act, aCfg) ==
    LET P(p) == p # "" /\ IsSub(p, act)
    IN  FirstIdx(AllowedPackages(aCfg), P) # 0

\* comp.split("/")[0]
SplitHead(comp) ==
    LET Before(i) == IF i = 0 THEN comp ELSE SubSeq(comp, 1, i - 1)
    IN  Before(FirstOf({i \in 1..Len(comp) : SubSeq(comp, i, i) = "/"}))

OpenAppAction(comp) ==
    [action |-> "open_app", target |-> [by |-> "component", value |-> comp],
     args |-> EmptyArgs]

\* _need_open_app(obs, cfg): the open_app action, or None
need_open_app(act, aCfg) ==
    IF InAllowedPackage(act, aCfg) THEN None
    ELSE IF aCfg.app_component # "" /\ ~IsSub(SplitHead(aCfg.app_component), act)
    THEN OpenAppAction(aCfg.app_component)
    ELSE IF aCfg.package # "" /\ ~IsSub(aCfg.package, act) /\ aCfg.app_component # ""
    THEN OpenAppAction(aCfg.app_component)
    ELSE None

\* the hint applies to the goal (the two `continue`s at the top of the loop)
HintActive(hint, aGoal) ==
    /\ "when_goal_contains_any" \in hint.keys =>
           goal_contains_any(aGoal, hint.when_goal_contains_any)
    /\ "when_goal_regex" \in hint.keys => goal_regex(aGoal, hint.when_goal_regex)

\* the static target wins, otherwise the first present of the preferences
HintStaticTarget(hint, elems) ==
    IF hint.target # None THEN hint.target
    ELSE find_first_present(elems, IF hint.prefer # <<>> THEN hint.prefer
                                   ELSE hint.target_prefer)

\* m.group(int(grp_idx)) raises IndexError for a group the pattern lacks
HintArgsRaise(hint, aGoal) ==
    /\ "when_goal_regex" \in hint.keys
    /\ \E k \in DOMAIN hint.args_from_regex_group :
           hint.args_from_regex_group[k] > GroupCount

\* args from the regex groups, then the static args of the hint over them
HintArgs(hint, aGoal) ==
    LET fromGroups ==
            IF "when_goal_regex" \in hint.keys
            THEN [k \in DOMAIN hint.args_from_regex_group |->
                     RegexGroup(aGoal, hint.when_goal_regex,
                                hint.args_from_regex_group[k])]
            ELSE EmptyArgs
    IN  hint.args @@ fromGroups

\* the target built from a regex group when no other target was found
HintTarget(hint, aGoal, elems) ==
    LET dyn == hint.target_from_regex_group
        Dynamic(val) == IF val # "" THEN [by |-> dyn.by, value |-> val] ELSE None
        Static(t) ==
            IF t = None /\ dyn # None /\ "when_goal_regex" \in hint.keys
               /\ dyn.group <= GroupCount
            THEN Dynamic(dyn.prefix
                         \o RegexGroup(aGoal, hint.when_goal_regex, dyn.group)
                         \o dyn.suffix)
            ELSE t
    IN  Static(HintStaticTarget(hint, elems))

\* act_obj = {"action": action}, with target and args when they are not empty
ActObj(a, target, args) ==
    [action |-> a]
    @@ (IF target # None THEN [target |-> target] ELSE EmptyArgs)
    @@ (IF args # EmptyArgs THEN [args |-> args] ELSE EmptyArgs)
HintAction(hint, aGoal, elems) ==
    ActObj(hint.action, HintTarget(hint, aGoal, elems), HintArgs(hint, aGoal))

\* the text of `args` or of a history plan: (args.get("text") or "")
TextArg(args) == IF "text" \in DOMAIN args THEN args["text"] ELSE ""
PlanArgs(p) == IF Has(p, "args") THEN p.args ELSE EmptyArgs

HistoryWindow == 3

\* list(history)
LastEntriesAll(aHistory) == aHistory

\* list(history)[-3:]
LastEntries(aHistory) ==
    SubSeq(aHistory, Max({1, Len(aHistory) - HistoryWindow + 1}), Len(aHistory))

\* a guard that reads the loop's counter
TypedInAnEarlierCycle(args, aHistory) == step > 0

\* typed_same_recently
TypedSameRecently(args, aHistory) ==
    LET text_arg == Lower(Strip(TextArg(args)))
        recent == LastEntries(aHistory)
    IN  \E i \in 1..Len(recent) :
            /\ recent[i].plan.action = "type"
            /\ \/ text_arg = ""
               \/ text_arg = Lower(Strip(TextArg(PlanArgs(recent[i].plan))))

\* a check that looks at the snapshot only
HasSearchFieldOnScreen(elems, act) ==
    \E i \in 1..Len(elems) :
        \/ IsSub("edittext", Lower(elems[i].class))
        \/ IsSub("search_src_text", Lower(elems[i].resource_id))
        \/ IsSub("search_edit_text", Lower(elems[i].resource_id))

\* has_search_field
HasSearchField(elems, act) ==
    \/ \E i \in 1..Len(elems) :
           \/ IsSub("edittext", Lower(elems[i].class))
           \/ IsSub("search_src_text", Lower(elems[i].resource_id))
           \/ IsSub("search_edit_text", Lower(elems[i].resource_id))
    \/ IsSub("searchactivity", Lower(act))
    \/ IsSub(".search", Lower(act))

\* the guards after which the loop body says `continue`, for the act_obj a
\* of the hint
HintSkipped(a, aGoal, act, elems, aCfg, aHistory) ==
    \/ a.action = "open_app" /\ InAllowedPackage(act, aCfg)
    \/ a.action \in {"tap", "open_app"} /\ ~Has(a, "target")
    \/ a.action = "type" /\ TypedSameRecently(PlanArgs(a), aHistory)
    \/ /\ a.action = "tap"
       /\ goal_contains_any(aGoal, <<"search">>)
       /\ HasSearchField(elems, act)
    \/ ~SchemaValid(a)

PlannerRaised == [raised |-> TRUE]

\* a scroll fallback whose defaults win over fallback_scroll_args
FallbackDefaultsFirst(aCfg) ==
    IF aCfg.fallback_scroll_if_not_found # "false"
    THEN [action |-> "scroll",
          args |-> [direction |-> "down", duration_ms |-> 500,
                    length_factor |-> <<7, 10>>]
                   @@ aCfg.fallback_scroll_args]
    ELSE [action |-> "wait", args |-> [duration_ms |-> 500]]

\* the scroll and wait fallbacks
FallbackAction(aCfg) ==
    IF aCfg.fallback_scroll_if_not_found # "false"
    THEN [action |-> "scroll",
          args |-> aCfg.fallback_scroll_args
                   @@ [direction |-> "down", duration_ms |-> 500,
                       length_factor |-> <<7, 10>>]]
    ELSE [action |-> "wait", args |-> [duration_ms |-> 500]]

Continue == [continue |-> TRUE]

\* one pass of the loop body: Continue, PlannerRaised, or the action returned
HintOutcome(hint, aGoal, act, elems, aCfg, aHistory) ==
    LET Guarded(a) ==
            IF HintSkipped(a, aGoal, act, elems, aCfg, aHistory) THEN Continue
            ELSE a
    IN  IF ~HintActive(hint, aGoal) THEN Continue
        ELSE IF HintArgsRaise(hint, aGoal) THEN PlannerRaised
        ELSE Guarded(HintAction(hint, aGoal, elems))

\* a loop that keeps going after a pass that does not say `continue`
LastOutcome(outs, fallback) ==
    LET At(i) == IF i = 0 THEN fallback ELSE outs[i]
    IN  At(Max({0} \cup {i \in DOMAIN outs : outs[i] # Continue}))

\* the loop over cfg["plan_hints"]: the outcome of the first pass that does
\* not say `continue`, and the fallbacks when every pass does
FirstOutcome(outs, fallback) ==
    LET At(i) == IF i = 0 THEN fallback ELSE outs[i]
    IN  At(FirstOf({i \in DOMAIN outs : outs[i] # Continue}))

PlanFromHints(aGoal, act, elems, aCfg, aHistory) ==
    FirstOutcome([i \in 1..Len(aCfg.plan_hints) |->
                     HintOutcome(aCfg.plan_hints[i], aGoal, act, elems, aCfg,
                                 aHistory)],
                 FallbackAction(aCfg))

plan_next_action(aGoal, act, elems, aCfg, aHistory) ==
    LET Guard(a) == IF a # None THEN a
                    ELSE PlanFromHints(aGoal, act, elems, aCfg, aHistory)
    IN  Guard(need_open_app(act, aCfg))

(***************************************************************************)
(* The resolver on bounded inputs: every snapshot of at most MaxElems      *)
(* elements of ElemPool against every target of Targets.                   *)
(***************************************************************************)
InnerBounds == <<1, 1, 2, 2>>
OuterBounds == <<0, 0, 4, 4>>

\* <<resource_id, text, content_desc>> of the pool's elements: one field set,
\* or none (a bare container)
Labels ==
    {<<"r", "", "">>, <<"", "ok", "">>, <<"", " ok", "">>, <<"", "okay", "">>,
     <<"", "", "ok">>, <<"", "", "">>}

ElemPool ==
    {Element(l[1], l[2], l[3], "android.widget.TextView", b, c) :
        l \in Labels, b \in {InnerBounds, OuterBounds}, c \in BOOLEAN}

Snapshots == UNION {[1..n -> ElemPool] : n \in 0..MaxElems}

Targets ==
    {[by |-> "text", value |-> "ok"], [by |-> "text", value |-> "oky"],
     [by |-> "text", value |-> "ka"], [by |-> "resource-id", value |-> "r"],
     [by |-> "resource-id", value |-> "ok"],
     [by |-> "content-desc", value |-> "ok"],
     [by |-> "element_id", value |-> ElementId("", "ok", InnerBounds)]}

InitResolver ==
    /\ pc = "resolve"
    /\ state_norm \in Snapshots
    /\ sel \in Targets
    /\ found = None
    /\ obs = ""
    /\ TerminationIdle /\ PlannerIdle /\ VerifierIdle /\ LoopIdle

\* el = find_by_selector(state_norm, sel.get("by"), sel.get("value"))
Resolve ==
    /\ pc = "resolve"
    /\ found' = find_by_selector(state_norm, sel.by, sel.value)
    /\ pc' = "resolved"
    /\ UNCHANGED <<state_norm, obs, sel, terminationVars, plannerVars, verifierVars,
                   loopVars>>

NextResolver == Resolve

SpecResolver == InitResolver /\ [][NextResolver]_vars

\* inputs that reach the fuzzy tier of resolve_selector: blobs made of text,
\* of content_desc and of both, an element with neither, a text that reads
\* like a bounds literal, and targets at, above and below the 0.6 floor
FarBounds == <<9, 9, 9, 9>>

InitFuzzy ==
    /\ pc = "resolve"
    /\ state_norm \in (
           LET labels ==
                   {<<"okay", "">>, <<"", "okay">>, <<"ok", "">>, <<"", "">>,
                    <<"Okay", "now">>, <<NoSpaces(PyListStr(FarBounds)), "">>}
               Pool(ls) ==
                   {Element("", l[1], l[2], "android.widget.TextView", InnerBounds, FALSE) :
                       l \in ls}
               Upto(pool) == UNION {[1..n -> pool] : n \in 0..MaxElems}
           IN  Upto(Pool(labels)))
    /\ sel \in (
           {[by |-> "text", value |-> "okzzzy"], [by |-> "text", value |-> "okzzzz"],
            [by |-> "text", value |-> "KA"], [by |-> "text", value |-> " okay now "],
            [by |-> "resource-id", value |-> "okzzzy"],
            [by |-> "content-desc", value |-> "ka"],
            [by |-> "bounds", value |-> PyListStr(InnerBounds)],
            [by |-> "bounds", value |-> PyListStr(FarBounds)],
            [by |-> "bounds", value |-> NoSpaces(PyListStr(FarBounds))],
            [by |-> "bounds", value |-> BoundsAttr(FarBounds)]})
    /\ found = None
    /\ obs = ""
    /\ TerminationIdle /\ PlannerIdle /\ VerifierIdle /\ LoopIdle

SpecFuzzy == InitFuzzy /\ [][NextResolver]_vars

\* the ranking of the fuzzy tier: snapshots of at most MaxElems elements that
\* only their descriptions tell apart, two of which reach the same score
\* for the value abcdefg by different routes (0.7 with containment, 0.8
\* without)
InitRanking ==
    /\ pc = "resolve"
    /\ state_norm \in (
           LET Pool == {Element("", "", d, "android.widget.TextView", InnerBounds, FALSE) :
                           d \in {"xxxabcdefgxxx", "abcxdefy", "abcdefgh", ""}}
           IN  UNION {[1..n -> Pool] : n \in 0..MaxElems})
    /\ sel \in {[by |-> "content-desc", value |-> "abcdefg"],
                [by |-> "content-desc", value |-> " ABCDEFG"],
                [by |-> "text", value |-> "abcdefg"]}
    /\ found = None
    /\ obs = ""
    /\ TerminationIdle /\ PlannerIdle /\ VerifierIdle /\ LoopIdle

SpecRanking == InitRanking /\ [][NextResolver]_vars

(***************************************************************************)
(* run_goal.py: goal_satisfied; termination.py: evaluate_termination       *)
(***************************************************************************)
\* a termination spec is a function from the keys it configures to their
\* values; None stands for an absent spec (cfg["termination"] is null)
EmptySpec == [k \in {} |-> ""]

\* a Python list as a sequence: all(P(x) for x in xs), any(P(x) for x in xs)
AllOf(xs, P(_)) == \A i \in 1..Len(xs) : P(xs[i])
AnyOf(xs, P(_)) == \E i \in 1..Len(xs) : P(xs[i])

goal_satisfied(act, elems, t) ==
    IF t = None \/ DOMAIN t = {} THEN FALSE
    ELSE
      LET TextHas(e) ==
              IsSub(Lower(Strip(t["must_contain_text"])), Lower(Strip(e.text)))
          NotIn(p) == p = "" \/ ~IsSub(p, act)
          ok1 == Has(t, "must_contain_text") => AnyOf(elems, TextHas)
          ok2 == ok1 /\ (Has(t, "activity") => IsSub(t["activity"], act))
          ok3 == ok2 /\ (Has(t, "package") => IsSub(t["package"], act))
          ok4 == ok3 /\ (Has(t, "not_package_in") => AllOf(t["not_package_in"], NotIn))
      IN  ok4

\* _ci_contains(hay, needle) = bool(hay) and needle.lower() in hay.lower()
CiContains(hay, needle) == hay # "" /\ IsSub(Lower(needle), Lower(hay))

\* _any_text_present(state_norm, texts)
AnyTextPresent(elems, texts) ==
    \E i \in 1..Len(elems) : \E j \in 1..Len(texts) :
        \/ CiContains(elems[i].text, texts[j])
        \/ CiContains(elems[i].content_desc, texts[j])

\* _one_text_present(state_norm, t)
OneTextPresent(elems, t) == AnyTextPresent(elems, <<t>>)

\* the result is [raised, ok, detail]: `"package" in None` raises TypeError;
\* detail is the trail of <<predicate, cond>> in the order of evaluation
evaluate_termination(elems, act, t) ==
    IF t = None THEN [raised |-> TRUE, ok |-> FALSE, detail |-> <<>>]
    ELSE
      LET Present(x) == OneTextPresent(elems, x)
          cond(k) ==
              CASE k = "package" -> IsSub(Lower(t["package"]), Lower(act))
                [] k = "activity" -> IsSub(Lower(t["activity"]), Lower(act))
                [] k = "must_contain_text" ->
                       OneTextPresent(elems, t["must_contain_text"])
                [] k = "any_of_texts" -> AnyTextPresent(elems, t["any_of_texts"])
                [] k = "all_of_texts" -> AllOf(t["all_of_texts"], Present)
          order == <<"package", "activity", "must_contain_text",
                     "any_of_texts", "all_of_texts">>
          F[i \in 0..Len(order)] ==
              IF i = 0 THEN [ok |-> TRUE, detail |-> <<>>]
              ELSE IF Has(t, order[i])
                   THEN [ok |-> F[i - 1].ok /\ cond(order[i]),
                         detail |-> Append(F[i - 1].detail,
                                           <<order[i], cond(order[i])>>)]
                   ELSE F[i - 1]
      IN  [raised |-> FALSE, ok |-> F[Len(order)].ok,
           detail |-> F[Len(order)].detail]

(***************************************************************************)
(* The termination evaluators on bounded inputs.                           *)
(***************************************************************************)
EditTextClass == "android.widget.EditText"
TextViewClass == "android.widget.TextView"

\* elements that differ in where a text stands: text or description, a label
\* or an input field, with other case or blanks around it
TextPool ==
    {Element("", "Done", "", TextViewClass, InnerBounds, FALSE),
     Element("", " done ", "", EditTextClass, InnerBounds, TRUE),
     Element("", "", "Done", TextViewClass, InnerBounds, TRUE),
     Element("", "Other", "", TextViewClass, OuterBounds, FALSE)}

TextSnapshots == UNION {[1..n -> TextPool] : n \in 0..MaxElems}

Activities == {"", "com.x/.Main", "Com.X/.Main", "com.y/.Home"}

TermValues(k) ==
    CASE k = "package" -> {"com.x", ""}
      [] k = "activity" -> {".Main"}
      [] k = "must_contain_text" -> {"Done", "gone"}
      [] k = "any_of_texts" -> {<<"gone", "Done">>}
      [] k = "all_of_texts" -> {<<"Other", "Done">>}
      [] k = "not_package_in" -> {<<"com.y", "">>}

TermKeys ==
    {"package", "activity", "must_contain_text", "any_of_texts", "all_of_texts",
     "not_package_in"}

\* the specs of S, and each of them with key k configured as well
WithKey(S, k) == S \cup {t @@ (k :> v) : t \in S, v \in TermValues(k)}

TermSpecs ==
    WithKey(WithKey(WithKey(WithKey(WithKey(WithKey({EmptySpec},
        "package"), "activity"), "must_contain_text"), "any_of_texts"),
        "all_of_texts"), "not_package_in")

InitTermination ==
    /\ pc = "evaluate"
    /\ state_norm \in TextSnapshots
    /\ obs \in Activities
    /\ termination \in TermSpecs \cup {None}
    /\ gs = FALSE /\ et = None
    /\ ResolverIdle /\ PlannerIdle /\ VerifierIdle /\ LoopIdle

\* goal_satisfied(obs, state_norm, termination) and
\* evaluate_termination(state_norm, obs, termination) on the same arguments
Evaluate ==
    /\ pc = "evaluate"
    /\ gs' = goal_satisfied(obs, state_norm, termination)
    /\ et' = evaluate_termination(state_norm, obs, termination)
    /\ pc' = "evaluated"
    /\ UNCHANGED <<state_norm, obs, termination, resolverVars, plannerVars,
                   verifierVars, loopVars>>

NextTermination == Evaluate

SpecTermination == InitTermination /\ [][NextTermination]_vars

(***************************************************************************)
(* The planner on bounded inputs: configs of at most MaxHints different    *)
(* hints of HintPool, with and without an app component, a package and an  *)
(* allowed package.                                                        *)
(***************************************************************************)
MaxHints == 2

NoHint ==
    [keys |-> {}, when_goal_contains_any |-> <<>>, when_goal_regex |-> "",
     action |-> "", target |-> None, prefer |-> <<>>, target_prefer |-> <<>>,
     args_from_regex_group |-> EmptyArgs, args |-> EmptyArgs,
     target_from_regex_group |-> None]

SearchSel == [by |-> "text", value |-> "Search"]
SettingsSel == [by |-> "text", value |-> "Settings"]

HintPool ==
    {[NoHint EXCEPT !.keys = {"when_goal_contains_any"},
                    !.when_goal_contains_any = <<"search">>,
                    !.action = "tap", !.prefer = <<SearchSel>>],
     [NoHint EXCEPT !.keys = {"when_goal_regex"}, !.when_goal_regex = "search for ",
                    !.action = "type", !.args_from_regex_group = [text |-> 1]],
     [NoHint EXCEPT !.keys = {"when_goal_contains_any"},
                    !.when_goal_contains_any = <<"settings">>,
                    !.action = "tap", !.target = SettingsSel],
     [NoHint EXCEPT !.keys = {"when_goal_regex"}, !.when_goal_regex = "open ",
                    !.action = "tap",
                    !.target_from_regex_group =
                        [by |-> "text", group |-> 1, prefix |-> "", suffix |-> ""]],
     [NoHint EXCEPT !.action = "open_app",
                    !.target = [by |-> "component", value |-> "com.x/.Main"]]}

Goals == {"search for socks", "open Settings"}

PlanSnapshots ==
    {<<>>,
     <<Element("", "Search", "", TextViewClass, InnerBounds, TRUE)>>,
     <<Element("id/search_src_text", "Search", "", EditTextClass, OuterBounds, TRUE),
       Element("", "Settings", "", TextViewClass, InnerBounds, FALSE)>>}

PlanActivities == {"", "com.x/.Main", "com.y/.Home", "com.z/.SearchActivity"}

Configs ==
    {[app_component |-> app[1], package |-> app[2], allowed_packages |-> app[3],
      plan_hints |-> hints, fallback_scroll_if_not_found |-> fb[1],
      fallback_scroll_args |-> fb[2]] :
        app \in {<<"com.x/.Main", "com.x", <<>>>>, <<"", "com.x", <<>>>>,
                 <<"com.x/.Main", "", <<>>>>, <<"com.x/.Main", "com.x", <<"com.z">>>>},
        hints \in UNION {{h \in [1..n -> HintPool] :
                             \A i, j \in 1..n : h[i] = h[j] => i = j} :
                         n \in 0..MaxHints},
        fb \in {<<"unset", EmptyArgs>>, <<"false", EmptyArgs>>,
                <<"true", [direction |-> "up", steps |-> 2]>>}}

Histories ==
    {<<>>, <<[plan |-> [action |-> "type", args |-> [text |-> "socks"]]]>>}

InitPlanner ==
    /\ pc = "plan"
    /\ goal \in Goals
    /\ obs \in PlanActivities
    /\ state_norm \in PlanSnapshots
    /\ cfg \in Configs
    /\ history \in Histories
    /\ plan = None
    /\ ResolverIdle /\ TerminationIdle /\ VerifierIdle /\ LoopIdle

\* plan = plan_next_action(goal, obs, state_norm, cfg, history)
Plan ==
    /\ pc = "plan"
    /\ plan' = plan_next_action(goal, obs, state_norm, cfg, history)
    /\ pc' = "planned"
    /\ UNCHANGED <<state_norm, obs, goal, cfg, history, resolverVars,
                   terminationVars, verifierVars, loopVars>>

NextPlanner == Plan

SpecPlanner == InitPlanner /\ [][NextPlanner]_vars

\* inputs for the anti-repeat check of type hints: one type hint, followed or
\* not by a back hint, and histories longer than the window it looks at
MaxHistory == 4

InitRepeat ==
    /\ pc = "plan"
    /\ goal = "search for socks"
    /\ obs = "com.x/.Main"
    /\ state_norm = <<>>
    /\ cfg \in (
           LET TypeHints ==
                   {[NoHint EXCEPT !.keys = {"when_goal_regex"},
                                   !.when_goal_regex = "search for ",
                                   !.action = "type", !.args_from_regex_group = [text |-> 1]],
                    [NoHint EXCEPT !.action = "type", !.args = [text |-> "Socks "]],
                    [NoHint EXCEPT !.action = "type", !.args = [text |-> ""]],
                    [NoHint EXCEPT !.action = "type", !.args = [duration_ms |-> "500"]]}
           IN  {[app_component |-> "", package |-> "", allowed_packages |-> <<>>,
                 plan_hints |-> <<h>> \o rest, fallback_scroll_if_not_found |-> "unset",
                 fallback_scroll_args |-> EmptyArgs] :
                   h \in TypeHints, rest \in {<<>>, <<[NoHint EXCEPT !.action = "back"]>>}})
    /\ history \in (
           LET PastPlans ==
                   {[action |-> "type", args |-> [text |-> "socks"]],
                    [action |-> "type", args |-> [text |-> " SOCKS"]],
                    [action |-> "type", args |-> [text |-> "shoes"]],
                    [action |-> "tap", target |-> SearchSel]}
           IN  UNION {[1..n -> {[plan |-> q] : q \in PastPlans}] : n \in 0..MaxHistory})
    /\ plan = None
    /\ ResolverIdle /\ TerminationIdle /\ VerifierIdle /\ LoopIdle

SpecRepeat == InitRepeat /\ [][NextPlanner]_vars

\* two calls of plan_next_action with the same five arguments, the second one
\* made after the loop has gone through further cycles (its counter and its
\* log of calls have moved on)
InitTwoCalls ==
    /\ InitPlanner
    /\ cfg.package = "" /\ cfg.allowed_packages = <<>>

LaterCycle ==
    /\ pc = "planned"
    /\ step < MaxSteps
    /\ step' = step + 1
    /\ trace' = Append(trace, [call |-> "observe"])
    /\ UNCHANGED <<pc, state_norm, obs, resolverVars, terminationVars, plannerVars,
                   verifierVars, max_steps, planner, llm_verify, outcome, replan, logger,
                   device>>

PlanAgain ==
    /\ pc = "planned"
    /\ replan' = plan_next_action(goal, obs, state_norm, cfg, history)
    /\ pc' = "replanned"
    /\ UNCHANGED <<state_norm, obs, resolverVars, terminationVars, plannerVars,
                   verifierVars, step, max_steps, planner, llm_verify, outcome, trace,
                   logger, device>>

SpecTwoCalls == InitTwoCalls /\ [][Plan \/ LaterCycle \/ PlanAgain]_vars

(***************************************************************************)
(* verifier.py and observer.py.  A call of verify_and_retry is a loop of    *)
(* attempts; the device shows a screen of its own choosing at each          *)
(* observation, and the backoff sleeps lie between the attempts.            *)
(***************************************************************************)
MaxRetries == 5

\* expect.get(k) is truthy
Expects(e, k) == Has(e, k) /\ e[k] # ""

\* fuzzy_text_present(state_norm, needle)
fuzzy_text_present(elems, needle) ==
    \E i \in 1..Len(elems) :
        /\ ~IsSub("edittext", Lower(elems[i].class))
        /\ IsSub(Lower(Strip(needle)), Lower(Strip(elems[i].text)))

\* ok_text after the must_contain_text and must_equal_text checks
OkText(elems, e) ==
    /\ Expects(e, "must_contain_text") =>
           fuzzy_text_present(elems, e["must_contain_text"])
    /\ Expects(e, "must_equal_text") =>
           \E i \in 1..Len(elems) :
               Strip(elems[i].text) = Strip(e["must_equal_text"])

\* ok_act: (expect["activity"] in current_act) if current_act else False
OkAct(act, e) ==
    Expects(e, "activity") => (act # "" /\ IsSub(e["activity"], act))

AttemptOkEitherField(o, e) ==
    OkText(o.elements, e) \/ OkAct(o.package_activity, e)

\* `if ok_text and ok_act` on the observation o
AttemptOk(o, e) == OkText(o.elements, e) /\ OkAct(o.package_activity, e)

LoopContinuesInclusive(a, n) == a <= n

\* while attempt < max_retries
LoopContinues(a, n) == a < n

\* backoffs = [0.5, 1.0, 2.0], in tenths of a second
Backoffs == <<5, 10, 20>>

\* a schedule that starts over after its last value
BackoffWrapping(a) == Backoffs[((a - 1) % Len(Backoffs)) + 1]

\* backoffs[min(attempt-1, len(backoffs)-1)]
Backoff(a) == Backoffs[Min({a - 1, Len(Backoffs) - 1}) + 1]

ObserveCallsAndTap(stage) ==
    <<"uiautomator_dump", "pull", "screencap", "get_focused_activity",
      "input_tap">>

\* the adb_wrapper primitives observe() invokes: all four, or those up to
\* the one whose failure makes it raise
ObserveCalls(stage) ==
    CASE stage = "uiautomator_dump" -> <<"uiautomator_dump">>
      [] stage = "pull" -> <<"uiautomator_dump", "pull">>
      [] OTHER -> <<"uiautomator_dump", "pull", "screencap",
                    "get_focused_activity">>

\* last_state: the last observation made, None before the first
LastState == IF observed = <<>> THEN None ELSE observed[Len(observed)]

\* {"ok": ok, "attempts": attempt, "state": last_state}
Report(ok, a, st) == [ok |-> ok, attempts |-> a, state |-> st]

Screens ==
    {[package_activity |-> "com.x/.Main",
      elements |-> <<Element("", "Done", "", TextViewClass, InnerBounds, FALSE)>>],
     [package_activity |-> "com.x/.Main",
      elements |-> <<Element("", "Done", "", EditTextClass, InnerBounds, FALSE)>>],
     [package_activity |-> "com.y/.Home",
      elements |-> <<Element("", " Well done ", "", TextViewClass, InnerBounds, FALSE)>>],
     [package_activity |-> "", elements |-> <<>>]}

ExpectValues(k) ==
    CASE k = "must_contain_text" -> {"done", ""}
      [] k = "must_equal_text" -> {"Done"}
      [] k = "activity" -> {".Main"}

WithField(S, k) == S \cup {e @@ (k :> v) : e \in S, v \in ExpectValues(k)}

Expectations ==
    WithField(WithField(WithField({EmptyArgs}, "must_contain_text"),
        "must_equal_text"), "activity") \cup {None}

VerifiedActions ==
    {[action |-> "tap", target |-> SearchSel, args |-> EmptyArgs],
     [action |-> "type", args |-> [text |-> "socks"]]}

InitVerifier ==
    /\ pc = "verify"
    /\ action \in VerifiedActions
    /\ expect \in Expectations
    /\ max_retries \in 0..MaxRetries
    /\ attempt = 0
    /\ observed = <<>> /\ sleeps = <<>> /\ calls = <<>>
    /\ result = None
    /\ state_norm = <<>> /\ obs = ""
    /\ ResolverIdle /\ TerminationIdle /\ PlannerIdle /\ LoopIdle

\* one pass of the loop body whose observe() returns: the observation, the
\* checks, and the return or the backoff sleep
VerifyAttempt ==
    /\ pc = "verify"
    /\ LoopContinues(attempt, max_retries)
    /\ \E o \in Screens :
         /\ attempt' = attempt + 1
         /\ calls' = calls \o ObserveCalls("")
         /\ observed' = Append(observed, o)
         /\ IF expect = None \/ AttemptOk(o, expect)
            THEN /\ result' = Report(TRUE, attempt', o)
                 /\ pc' = "returned"
                 /\ UNCHANGED sleeps
            ELSE /\ sleeps' = IF attempt' < max_retries
                              THEN Append(sleeps, Backoff(attempt'))
                              ELSE sleeps
                 /\ UNCHANGED <<pc, result>>
    /\ UNCHANGED <<state_norm, obs, action, expect, max_retries, resolverVars,
                   terminationVars, plannerVars, loopVars>>

\* a pass of the loop body whose observe() raises RuntimeError
ObserveRaises ==
    /\ pc = "verify"
    /\ LoopContinues(attempt, max_retries)
    /\ \E stage \in {"uiautomator_dump", "pull"} :
         calls' = calls \o ObserveCalls(stage)
    /\ attempt' = attempt + 1
    /\ pc' = "raised"
    /\ UNCHANGED <<state_norm, obs, action, expect, max_retries, observed, sleeps,
                   result, resolverVars, terminationVars, plannerVars, loopVars>>

\* the loop ends: return {"ok": False, "attempts": attempt, "state": last_state}
VerifyExhausted ==
    /\ pc = "verify"
    /\ ~LoopContinues(attempt, max_retries)
    /\ result' = Report(FALSE, attempt, LastState)
    /\ pc' = "returned"
    /\ UNCHANGED <<state_norm, obs, action, expect, max_retries, attempt, observed,
                   sleeps, calls, resolverVars, terminationVars, plannerVars,
                   loopVars>>

NextVerifier == VerifyAttempt \/ ObserveRaises \/ VerifyExhausted

SpecVerifier == InitVerifier /\ [][NextVerifier]_vars

(***************************************************************************)
(* gemini_llm_planner.py, remote_llm_planner.py, llm_planner.py.  The      *)
(* model's answer is an input: Unparsable (no JSON object in the text, or  *)
(* null), ApiFailure (the call to the model raised), or the value parsed.  *)
(***************************************************************************)
Unparsable == [unparsable |-> TRUE]
ApiFailure == [api_failure |-> TRUE]

WaitAction == [action |-> "wait", args |-> [duration_ms |-> 400]]
ForcedOpenApp(comp) ==
    [action |-> "open_app", target |-> [by |-> "component", value |-> comp]]

\* target_pkg and target_pkg not in act and app_component
ForcesOpenApp(act, aCfg) ==
    aCfg.package # "" /\ ~IsSub(aCfg.package, act) /\ aCfg.app_component # ""

\* the action after the post-fix: open_app enforced, wait for no answer
Corrected(answer, act, aCfg) ==
    IF ForcesOpenApp(act, aCfg) THEN ForcedOpenApp(aCfg.app_component)
    ELSE IF answer = Unparsable THEN WaitAction
    ELSE answer

\* plan_next_action_remote: the chat call and the completion call both
\* raising is the one way out by exception
plan_next_action_remote(answer, act, aCfg) ==
    LET Checked(a) == IF SchemaValid(a) THEN a ELSE WaitAction
    IN  IF answer = ApiFailure THEN PlannerRaised
        ELSE Checked(Corrected(answer, act, aCfg))

\* plan_next_action_llm: an invalid action raises ValueError
plan_next_action_llm(answer, act, aCfg) ==
    LET Checked(a) == IF SchemaValid(a) THEN a ELSE PlannerRaised
    IN  IF answer = ApiFailure THEN PlannerRaised
        ELSE Checked(Corrected(answer, act, aCfg))

\* the scroll assist of plan_next_action_gemini (None: the goal asks for no
\* scroll).  The goals of the model that mention scroll hold neither "find"
\* nor "search", so the pattern of line 150 matches nothing and the terms
\* are the words of line 161 that the goal holds.
ScrollAssist(aGoal, elems) ==
    LET g == Lower(aGoal)
        dir == IF IsSub("scroll up", g) THEN "up"
               ELSE IF IsSub("scroll", g) THEN "down" ELSE ""
        words == <<"system", "about", "apps", "privacy", "security", "developer">>
        Shows(e) ==
            \E i \in 1..Len(words) :
                /\ IsSub(words[i], g)
                /\ IsSub(words[i], Lower(e.text \o " " \o e.content_desc))
        TapOr(e) ==
            IF e # None
            THEN [action |-> "tap",
                  target |-> [by |-> "element_id", value |-> e.element_id]]
            ELSE [action |-> "scroll",
                  args |-> [direction |-> dir, duration_ms |-> 700,
                            length_factor |-> <<9, 10>>,
                            start_pos |-> IF dir = "down" THEN "bottom" ELSE "top"]]
    IN  IF dir = "" THEN None ELSE TapOr(ElemAt(elems, FirstIdx(elems, Shows)))

\* the type assist of plan_next_action_gemini (None: no edit field, no term,
\* or the term was typed in the last three entries); goals are written with
\* single blanks
TypeAssist(aGoal, elems, aTermination, aHistory) ==
    LET IsEdit(e) ==
            \/ IsSub("edittext", Lower(e.class))
            \/ IsSub("search_src_text", Lower(e.resource_id))
            \/ IsSub("search_edit_text", Lower(e.resource_id))
        AfterFor(rest) ==
            IF Len(rest) > 4 /\ Lower(SubSeq(rest, 1, 4)) = "for "
            THEN SubSeq(rest, 5, Len(rest)) ELSE rest
        FromGoal ==
            IF goal_regex(aGoal, "search ")
            THEN Strip(AfterFor(RegexGroup(aGoal, "search ", 1)))
            ELSE IF goal_regex(aGoal, "find ")
            THEN Strip(RegexGroup(aGoal, "find ", 1)) ELSE ""
        FromSpec ==
            IF Has(aTermination, "must_contain_text")
            THEN Strip(aTermination["must_contain_text"]) ELSE ""
        Typed(t) ==
            \E i \in 1..Len(LastEntries(aHistory)) :
                /\ LastEntries(aHistory)[i].plan.action = "type"
                /\ t # ""
                /\ t = Lower(Strip(TextArg(PlanArgs(LastEntries(aHistory)[i].plan))))
        TypeInto(e, term) ==
            IF e # None /\ term # "" /\ ~Typed(Lower(Strip(term)))
            THEN [action |-> "type",
                  target |-> [by |-> "element_id", value |-> e.element_id],
                  args |-> [text |-> term]]
            ELSE None
    IN  TypeInto(ElemAt(elems, FirstIdx(elems, IsEdit)),
                 IF FromSpec # "" THEN FromSpec ELSE FromGoal)

\* plan_next_action_gemini: the assists, then the model's answer; a failing
\* call to the model leaves an empty text
plan_next_action_gemini(answer, aGoal, act, elems, aCfg, aTermination, aHistory) ==
    LET Checked(a) == IF SchemaValid(a) THEN a ELSE WaitAction
        Model == Checked(Corrected(IF answer = ApiFailure THEN Unparsable ELSE answer,
                                   act, aCfg))
        OrType(t) == IF t # None THEN t ELSE Model
        OrScroll(a) ==
            IF a # None THEN a
            ELSE OrType(TypeAssist(aGoal, elems, aTermination, aHistory))
    IN  OrScroll(ScrollAssist(aGoal, elems))

\* the planner the loop selected: Gemini > remote > local Llama > rule-based
SelectedPlanner(kind, answer, aGoal, act, elems, aCfg, aTermination, aHistory) ==
    CASE kind = "gemini" ->
           plan_next_action_gemini(answer, aGoal, act, elems, aCfg, aTermination,
                                   aHistory)
      [] kind = "remote" -> plan_next_action_remote(answer, act, aCfg)
      [] kind = "llama" -> plan_next_action_llm(answer, act, aCfg)
      [] OTHER -> plan_next_action(aGoal, act, elems, aCfg, aHistory)

\* answers of the model: none, a failed call, valid actions, and values the
\* schema rejects (unknown action, unknown discriminant, target without
\* value, no action, not an object)
ModelAnswers ==
    {Unparsable, ApiFailure,
     [action |-> "back"],
     [action |-> "tap", target |-> [by |-> "text", value |-> "Settings"]],
     [action |-> "open_app",
      target |-> [by |-> "component", value |-> "com.y/.Home"]],
     [action |-> "click"],
     [action |-> "tap", target |-> [by |-> "xpath", value |-> "//a"]],
     [action |-> "tap", target |-> [by |-> "text"]],
     [target |-> [by |-> "text", value |-> "Settings"]],
     [json |-> "array"]}

\* one call of the selected planner on bounded inputs
InitModelDriven ==
    /\ pc = "plan"
    /\ goal \in {"search for socks", "scroll down to about"}
    /\ obs \in PlanActivities
    /\ state_norm \in PlanSnapshots
    /\ cfg \in [app_component : {"", "com.x/.Main"},
                package : {"", "com.x"},
                allowed_packages : {<<>>, <<"com.z">>},
                plan_hints : {<<>>,
                              <<[NoHint EXCEPT
                                     !.action = "tap",
                                     !.target = [by |-> "xpath", value |-> "//a"]]>>},
                fallback_scroll_if_not_found : {"unset"},
                fallback_scroll_args : {EmptyArgs}]
    /\ termination \in {None, [must_contain_text |-> "Done"]}
    /\ history \in Histories
    /\ planner \in {"gemini", "remote", "llama", "rule"}
    /\ plan = None
    /\ sel = None /\ found = None /\ gs = FALSE /\ et = None
    /\ VerifierIdle
    /\ step = 0 /\ max_steps = 0 /\ llm_verify = FALSE /\ outcome = ""
    /\ trace = <<>> /\ replan = None /\ logger = None
    /\ device = None

\* plan = <selected planner>(goal, obs, state_norm, cfg, history)
PlanWith ==
    /\ pc = "plan"
    /\ \E answer \in ModelAnswers :
          /\ plan' = SelectedPlanner(planner, answer, goal, obs, state_norm, cfg,
                                     termination, history)
          /\ trace' = Append(trace, [call |-> "plan", answer |-> answer])
    /\ pc' = "planned"
    /\ UNCHANGED <<state_norm, obs, goal, cfg, history, resolverVars, terminationVars,
                   verifierVars, step, max_steps, planner, llm_verify, outcome, replan,
                   logger, device>>

SpecModelDriven == InitModelDriven /\ [][PlanWith]_vars

(***************************************************************************)
(* actuator.py: exec_action; run_goal.py: main.  A run is the loop of      *)
(* cycles observe, termination check, plan, act, verify; the device shows  *)
(* a screen of its own choosing at each observation and answers each       *)
(* primitive with success or failure.                                      *)
(***************************************************************************)
KeyArg(args) == IF "key" \in DOMAIN args THEN args["key"] ELSE ""

\* exec_action(action, state_norm): the reports it can return, each with the
\* adb_wrapper primitives it invoked; only the device decides whether a
\* primitive succeeds.  TapPoint is _resolve_tap_target: the centre of the
\* element found, (0, 0) otherwise (no target value here is a raw "x,y").
exec_action(p, elems) ==
    LET target == IF Has(p, "target") THEN p.target ELSE None
        Centre(e) == IF e # None THEN e.center ELSE <<0, 0>>
        TapPoint ==
            IF target = None THEN <<0, 0>>
            ELSE Centre(find_by_selector(elems, target.by, target.value))
        Refused == {[success |-> FALSE, adb |-> <<>>]}
        Device(prim) == {[success |-> ok, adb |-> <<prim>>] : ok \in BOOLEAN}
        Tap(point) ==
            IF target # None /\ point = <<0, 0>> THEN Refused
            ELSE Device("input_tap")
        Type(point) ==
            IF point # <<0, 0>>
            THEN {[success |-> FALSE, adb |-> <<"input_tap">>]}
                 \cup {[success |-> ok, adb |-> <<"input_tap", "input_text">>] :
                          ok \in BOOLEAN}
            ELSE Device("input_text")
    IN  CASE p.action = "open_app" ->
               IF target = None \/ target.value = "" THEN Refused
               ELSE Device("am_start")
          [] p.action = "back" -> Device("key_back")
          [] p.action = "keyevent" ->
               IF Strip(KeyArg(PlanArgs(p))) = "" THEN Refused
               ELSE Device("input_keyevent")
          [] p.action = "wait" -> {[success |-> TRUE, adb |-> <<>>]}
          [] p.action = "tap" -> Tap(TapPoint)
          [] p.action = "type" -> Type(TapPoint)
          [] p.action \in {"swipe", "scroll"} -> Device("input_swipe")
          [] OTHER -> Refused

\* logger.py: RunLogger() opens the file, log(record) writes one line, close()
\* closes the file; a record is known by its "step"
RunLogger == [f |-> "open", records |-> <<>>]
logAfterClose(l, names) == [f |-> "closed", records |-> l.records \o names]
log(l, names) == [l EXCEPT !.records = @ \o names]
close(l) == [l EXCEPT !.f = "closed"]

\* the records of a step of the run, and the finally clause of main when the
\* step leaves the try block
Logged(l, names, leaving) == IF leaving THEN close(log(l, names)) ELSE log(l, names)

\* a nudge after every type action, whatever was sent before
needs_enter_after_any_type(aGoal, aHistory) ==
    /\ aHistory # <<>>
    /\ aHistory[Len(aHistory)].plan.action = "type"
    /\ IsSub(" press enter", Lower(aGoal))

\* _needs_enter_after_type(goal, history)
needs_enter_after_type(aGoal, aHistory) ==
    LET triggers ==
            <<"[return]", " press enter", " hit enter", " press return",
              " hit return", " press go", " tap go", " hit go", " then go",
              " press search", " hit search", " then search", " input [return]">>
        SentEnter(q) ==
            /\ q.action = "keyevent"
            /\ Lower(KeyArg(PlanArgs(q))) \in {"enter", "search"}
    IN  /\ aHistory # <<>>
        /\ aHistory[Len(aHistory)].plan.action = "type"
        /\ \A i \in 1..Len(LastEntries(aHistory)) :
               ~SentEnter(LastEntries(aHistory)[i].plan)
        /\ \E i \in 1..Len(triggers) : IsSub(triggers[i], Lower(aGoal))

\* the expectation derived from the plan (EmptyArgs: `expect or None` is
\* None); PhoneLike is str.isdigit() and len(s) >= 5
BuildExpect(p, aCfg) ==
    LET text == Strip(TextArg(PlanArgs(p)))
        PhoneLike(t) ==
            /\ Len(t) >= 5
            /\ \A i \in 1..Len(t) :
                   SubSeq(t, i, i) \in {"0", "1", "2", "3", "4", "5", "6", "7", "8", "9"}
    IN  IF p.action = "type" /\ PhoneLike(text)
        THEN [must_equal_text |-> "Send to " \o text]
        ELSE IF p.action = "open_app" /\ aCfg.package # ""
        THEN [activity |-> aCfg.package]
        ELSE IF p.action = "type" /\ Has(aCfg, "verify_after_action_text")
        THEN [must_contain_text |-> aCfg.verify_after_action_text]
        ELSE EmptyArgs

\* what verify_and_retry can report: ok at once without expectation, else as
\* the device shows; with a retry budget of 0 it observes nothing
VerifyOutcomes(e, retries) ==
    IF retries <= 0 THEN {FALSE}
    ELSE IF e = EmptyArgs THEN {TRUE}
    ELSE BOOLEAN

\* the screens the device can show: another app; the app's home screen, bare
\* and with a search field and the label "Settings" inside a clickable row;
\* the screen the termination spec waits for
LoopScreens ==
    {[act |-> "com.y/.Home", elems |-> <<>>],
     [act |-> "com.x/.Main", elems |-> <<>>],
     [act |-> "com.x/.Main",
      elems |-> <<Element("id/search_src_text", "", "", EditTextClass, FarBounds,
                          TRUE),
                  Element("id/row", "", "", "android.widget.LinearLayout",
                          OuterBounds, TRUE),
                  Element("", "Settings", "", TextViewClass, InnerBounds, FALSE)>>],
     [act |-> "com.x/.Done",
      elems |-> <<Element("", "Done", "", TextViewClass, InnerBounds, FALSE)>>]}

\* the screens an observation can find, and the screens an action can bring a
\* device to that only the run's actions change
Showing(d) == IF d = None THEN LoopScreens ELSE {d}
Brought(d) == IF d = None THEN {None} ELSE LoopScreens

Init ==
    /\ pc = "observe"
    /\ goal \in {"search for socks then press enter", "scroll down to about"}
    /\ cfg \in (
           {[app_component |-> "com.x/.Main", package |-> "com.x",
             allowed_packages |-> <<>>,
             plan_hints |->
                 <<[NoHint EXCEPT !.keys = {"when_goal_regex"},
                                  !.when_goal_regex = "search for ", !.action = "type",
                                  !.args_from_regex_group = [text |-> 1]],
                   [NoHint EXCEPT !.keys = {"when_goal_contains_any"},
                                  !.when_goal_contains_any = <<"settings">>,
                                  !.action = "tap", !.target = SettingsSel]>>,
             fallback_scroll_if_not_found |-> "unset", fallback_scroll_args |-> EmptyArgs,
             verify_after_action_text |-> "socks"],
            [app_component |-> "", package |-> "", allowed_packages |-> <<>>,
             plan_hints |->
                 <<[NoHint EXCEPT !.keys = {"when_goal_regex"},
                                  !.when_goal_regex = "search for ", !.action = "type",
                                  !.args_from_regex_group = [text |-> 2]]>>,
             fallback_scroll_if_not_found |-> "false", fallback_scroll_args |-> EmptyArgs]})
    /\ termination = [package |-> "com.x", must_contain_text |-> "Done"]
    /\ planner \in {"gemini", "remote", "llama", "rule"}
    /\ llm_verify \in (IF planner = "gemini" THEN BOOLEAN ELSE {FALSE})
    /\ max_steps \in 0..MaxSteps
    /\ max_retries \in {3}
    /\ step = 0 /\ outcome = "" /\ trace = <<>> /\ history = <<>>
    /\ logger = RunLogger /\ device = None
    /\ obs = "" /\ state_norm = <<>> /\ plan = None /\ replan = None
    /\ sel = None /\ found = None /\ gs = FALSE /\ et = None
    /\ action = None /\ expect = None /\ attempt = 0 /\ observed = <<>>
    /\ sleeps = <<>> /\ calls = <<>> /\ result = None

\* for step in range(1, max_steps + 1): another cycle is due
BudgetLeftOneMore == step <= max_steps
BudgetLeft == step < max_steps

\* an observation after which the cycle goes on to the planner whether or
\* not termination is satisfied
ObserveAndPlan ==
    /\ pc = "observe"
    /\ BudgetLeft
    /\ step' = step + 1
    /\ \E s \in Showing(device) :
          /\ obs' = s.act
          /\ state_norm' = s.elems
          /\ trace' = Append(trace, [call |-> "observe",
                                     satisfied |-> goal_satisfied(s.act, s.elems,
                                                                  termination)])
          /\ outcome' = outcome /\ pc' = "decide"
    /\ logger' = log(logger, <<"observe">>)
    /\ UNCHANGED <<resolverVars, terminationVars, plannerVars, verifierVars,
                   max_steps, planner, llm_verify, replan, device>>

\* for step in range(1, max_steps + 1): observe, normalize, goal_satisfied
Observe ==
    /\ pc = "observe"
    /\ BudgetLeft
    /\ step' = step + 1
    /\ \E s \in Showing(device) :
          LET satisfied == goal_satisfied(s.act, s.elems, termination)
          IN  /\ obs' = s.act
              /\ state_norm' = s.elems
              /\ trace' = Append(trace, [call |-> "observe", satisfied |-> satisfied])
              /\ IF satisfied
                 THEN outcome' = "SUCCESS" /\ pc' = "exit"
                 ELSE outcome' = outcome /\ pc' = "decide"
              /\ logger' = Logged(logger,
                                  IF satisfied THEN <<"observe", "done">>
                                  ELSE <<"observe">>,
                                  satisfied)
    /\ UNCHANGED <<resolverVars, terminationVars, plannerVars, verifierVars,
                   max_steps, planner, llm_verify, replan, device>>

\* the loop ran out of steps: exit(5)
Exhausted ==
    /\ pc = "observe"
    /\ ~BudgetLeft
    /\ outcome' = "exit(5)"
    /\ pc' = "exit"
    /\ logger' = Logged(logger, <<"fail_termination">>, TRUE)
    /\ UNCHANGED <<state_norm, obs, resolverVars, terminationVars, plannerVars,
                   verifierVars, step, max_steps, planner, llm_verify, trace, replan,
                   device>>

\* the plan of the cycle: the ENTER nudge or the selected planner; an
\* exception of the planner is exit(3).  A model-driven planner is answered
\* with nothing usable, a failed request, a valid action or an unknown action
\* name.
Decide ==
    /\ pc = "decide"
    /\ \E answer \in (IF planner = "rule" \/ needs_enter_after_type(goal, history)
                      THEN {None} ELSE (
                           {Unparsable, ApiFailure,
                            [action |-> "tap", target |-> [by |-> "text", value |-> "Settings"]],
                            [action |-> "click"]})) :
          \E r \in {IF needs_enter_after_type(goal, history)
                    THEN [action |-> "keyevent", args |-> [key |-> "ENTER"]]
                    ELSE SelectedPlanner(planner, answer, goal, obs, state_norm, cfg,
                                         termination, history)} :
              /\ trace' = Append(trace, [call |-> "plan", answer |-> answer,
                                         raised |-> r = PlannerRaised])
              /\ IF r = PlannerRaised
                 THEN plan' = plan /\ outcome' = "exit(3)" /\ pc' = "exit"
                 ELSE plan' = r /\ outcome' = outcome /\ pc' = "act"
              /\ logger' = Logged(logger,
                                  IF r = PlannerRaised THEN <<"plan_error">>
                                  ELSE <<"plan">>,
                                  r = PlannerRaised)
    /\ UNCHANGED <<state_norm, obs, goal, cfg, history, resolverVars, terminationVars,
                   verifierVars, step, max_steps, planner, llm_verify, replan, device>>

\* where the loop goes with the report of exec_action: on to the verifier,
\* or out with exit(4)
AfterExecCarryOn(report) == "verify"
AfterExec(report) == IF report.success THEN "verify" ELSE "exit"

\* exec_action(plan, state_norm); a report without success is exit(4)
Act ==
    /\ pc = "act"
    /\ \E report \in exec_action(plan, state_norm) :
          /\ trace' = Append(trace, [call |-> "exec_action", plan |-> plan,
                                     report |-> report])
          /\ pc' = AfterExec(report)
          /\ outcome' = IF pc' = "exit" THEN "exit(4)" ELSE outcome
          /\ logger' = Logged(logger,
                              IF report.success THEN <<"act">>
                              ELSE <<"act", "act_failure">>,
                              pc' = "exit")
    /\ device' \in Brought(device)
    /\ UNCHANGED <<state_norm, obs, resolverVars, terminationVars, plannerVars,
                   verifierVars, step, max_steps, planner, llm_verify, replan>>

\* an append through which the plans recorded earlier become the latest plan
RecordedRewritingPlans(aHistory, record) ==
    Append([i \in 1..Len(aHistory) |-> [aHistory[i] EXCEPT !.plan = record.plan]],
           record)

\* history.append({"obs", "plan", "exec", "verify"})
RecordedLatestOnly(aHistory, record) == <<record>>
Recorded(aHistory, record) == Append(aHistory, record)

\* what the end of a cycle makes of the verifier's report and, with
\* --llm-verify (judged), of the model's verdict on a fresh observation:
\* "SUCCESS", or "" for another cycle
AfterVerifyTrusting(ok, judged, verdict, satisfied) ==
    IF judged /\ verdict THEN "SUCCESS" ELSE ""
AfterVerifyStrict(ok, judged, verdict, satisfied) ==
    IF ~ok THEN "exit(4)"
    ELSE IF judged /\ verdict /\ satisfied THEN "SUCCESS" ELSE ""
AfterVerify(ok, judged, verdict, satisfied) ==
    IF judged /\ verdict /\ satisfied THEN "SUCCESS" ELSE ""

\* verify_and_retry, history.append, and with --llm-verify the verdict of
\* the model on a fresh observation
Verify ==
    /\ pc = "verify"
    /\ \E ok \in VerifyOutcomes(BuildExpect(plan, cfg), max_retries) :
          /\ history' = Recorded(history,
                                 [obs |-> obs, plan |-> plan,
                                  exec |-> trace[Len(trace)].report,
                                  verify |-> [ok |-> ok]])
          /\ IF llm_verify
             THEN \E s \in Showing(device), verdict \in BOOLEAN :
                     LET satisfied == goal_satisfied(s.act, s.elems, termination)
                     IN  /\ trace' = trace \o
                                <<[call |-> "verify_and_retry", ok |-> ok],
                                  [call |-> "observe", satisfied |-> satisfied],
                                  [call |-> "verify_goal_gemini", ok |-> verdict]>>
                         /\ outcome' = AfterVerify(ok, TRUE, verdict, satisfied)
             ELSE /\ trace' = Append(trace, [call |-> "verify_and_retry", ok |-> ok])
                  /\ outcome' = AfterVerify(ok, FALSE, FALSE, FALSE)
          /\ pc' = IF outcome' = "" THEN "observe" ELSE "exit"
          /\ logger' = Logged(logger,
                              <<"verify">>
                              \o (IF llm_verify THEN <<"llm_verify">> ELSE <<>>)
                              \o (IF outcome' = "SUCCESS" THEN <<"done">> ELSE <<>>),
                              pc' = "exit")
    /\ UNCHANGED <<state_norm, obs, goal, cfg, plan, resolverVars, terminationVars,
                   verifierVars, step, max_steps, planner, llm_verify, replan, device>>

Next == Observe \/ Exhausted \/ Decide \/ Act \/ Verify

Spec == Init /\ [][Next]_vars

\* the loop is sequential code: as long as every call returns, control moves
\* on to the next statement until the run has ended
Advance ==
    /\ pc # "exit"
    /\ pc' \in {"observe", "decide", "act", "verify", "exit"} \ {pc}

SpecFair == Spec /\ WF_pc(Advance)

\* the run of section 8's end-to-end example: the rule-based planner, a config
\* naming app X with one hint that taps the label "Settings", given as the
\* hint's target or as its preference list, and room for four cycles
InitScenario ==
    /\ pc = "observe"
    /\ goal = "open app X and find label 'Settings' then tap it"
    /\ cfg \in {[app_component |-> "com.x/.Main", package |-> "com.x",
                 allowed_packages |-> <<>>, plan_hints |-> <<h>>,
                 fallback_scroll_if_not_found |-> "unset",
                 fallback_scroll_args |-> EmptyArgs] :
                    h \in {[NoHint EXCEPT !.keys = {"when_goal_contains_any"},
                                          !.when_goal_contains_any = <<"settings">>,
                                          !.action = "tap", !.target = SettingsSel],
                           [NoHint EXCEPT !.keys = {"when_goal_contains_any"},
                                          !.when_goal_contains_any = <<"settings">>,
                                          !.action = "tap",
                                          !.prefer = <<SettingsSel>>]}}
    /\ termination = [package |-> "com.x", must_contain_text |-> "Done"]
    /\ planner = "rule"
    /\ llm_verify = FALSE
    /\ max_steps = 4
    /\ max_retries = 3
    /\ step = 0 /\ outcome = "" /\ trace = <<>> /\ history = <<>>
    /\ logger = RunLogger /\ device = None
    /\ obs = "" /\ state_norm = <<>> /\ plan = None /\ replan = None
    /\ sel = None /\ found = None /\ gs = FALSE /\ et = None
    /\ action = None /\ expect = None /\ attempt = 0 /\ observed = <<>>
    /\ sleeps = <<>> /\ calls = <<>> /\ result = None

SpecScenario == InitScenario /\ [][Next]_vars

(***************************************************************************)
(* Claims about the resolver.                                              *)
(***************************************************************************)
\* the element matches the target exactly on the discriminant's field
ExactOn(e, by, val) ==
    CASE by = "resource-id" -> e.resource_id = val
      [] by = "text" -> Strip(e.text) = Strip(val)
      [] by = "content-desc" -> e.content_desc = val
      [] by = "element_id" -> e.element_id = val
      [] OTHER -> FALSE

ExactIdx == {i \in 1..Len(state_norm) : ExactOn(state_norm[i], sel.by, sel.value)}
TheExact == state_norm[Min(ExactIdx)]
InSnapshot(e) == \E i \in 1..Len(state_norm) : state_norm[i] = e
Encloses(w, e) == InSnapshot(w) /\ w.clickable /\ Contains(w.bounds, e.bounds)
FieldDiscriminants == {"resource-id", "text", "content-desc"}

\* C8 as stated: a unique exact match is the element the resolver returns.
C8_AsStated ==
    (pc = "resolved" /\ Cardinality(ExactIdx) = 1) => found = TheExact

\* C8, amended: a unique exact match is returned, or, when it is not
\* clickable, a clickable element of the snapshot whose bounds contain it; and
\* whenever an exact match exists the result is an exact match or a clickable
\* element around a non-clickable one, never a substring or fuzzy candidate.
C8_ExactWins ==
    pc = "resolved" =>
        /\ Cardinality(ExactIdx) = 1 =>
              \/ found = TheExact
              \/ ~TheExact.clickable /\ Encloses(found, TheExact)
        /\ ExactIdx # {} =>
              \E i \in ExactIdx :
                  \/ found = state_norm[i]
                  \/ ~state_norm[i].clickable /\ Encloses(found, state_norm[i])

\* a unique exact match came back although a clickable substring candidate
\* stands before it in the snapshot
C8_Witness ==
    /\ pc = "resolved"
    /\ sel = [by |-> "text", value |-> "ok"]
    /\ Len(state_norm) = 2
    /\ state_norm[1].text = "okay" /\ state_norm[1].clickable
    /\ ExactIdx = {2}
    /\ found = state_norm[2]

\* C9: when a clickable and a non-clickable element both match the target
\* exactly (resource-id, trimmed text or content-desc), the resolver returns
\* the clickable one (the first of them), whatever the order in the snapshot.
C9_ClickablePreferred ==
    (/\ pc = "resolved"
     /\ sel.by \in FieldDiscriminants
     /\ \E i \in ExactIdx : state_norm[i].clickable
     /\ \E i \in ExactIdx : ~state_norm[i].clickable)
    => found = state_norm[Min({i \in ExactIdx : state_norm[i].clickable})]

\* the non-clickable match stands first and the clickable one came back
C9_Witness ==
    /\ pc = "resolved"
    /\ sel.by = "resource-id"
    /\ ExactIdx = {1, 2}
    /\ ~state_norm[1].clickable /\ state_norm[2].clickable
    /\ found = state_norm[2]

\* C10 as stated: for resource-id, text and content-desc alike, a unique
\* non-clickable exact match yields a clickable element around it when there
\* is one, and the match itself otherwise.
C10_AsStated ==
    (/\ pc = "resolved"
     /\ sel.by \in FieldDiscriminants
     /\ Cardinality(ExactIdx) = 1
     /\ ~TheExact.clickable)
    => IF \E i \in 1..Len(state_norm) : Encloses(state_norm[i], TheExact)
       THEN Encloses(found, TheExact)
       ELSE found = TheExact

\* the same for text and content-desc only, where find_by_selector looks for
\* a wrapper
WrapperForTextAndDesc ==
    (/\ pc = "resolved"
     /\ sel.by \in {"text", "content-desc"}
     /\ Cardinality(ExactIdx) = 1
     /\ ~TheExact.clickable)
    => IF \E i \in 1..Len(state_norm) : Encloses(state_norm[i], TheExact)
       THEN Encloses(found, TheExact)
       ELSE found = TheExact

(***************************************************************************)
(* Claims about the fuzzy tier of the resolver, under SpecFuzzy.           *)
(***************************************************************************)
\* no tier before the fuzzy one matches element e: neither its field, nor a
\* substring of its text, nor its bounds
BeforeFuzzy(e) ==
    \/ ExactOn(e, sel.by, sel.value)
    \/ sel.by = "text" /\ IsSub(Lower(Strip(sel.value)), Lower(Strip(e.text)))
    \/ sel.by = "bounds" /\ NoSpaces(sel.value) = NoSpaces(PyListStr(e.bounds))
FuzzyTierReached ==
    pc = "resolved" /\ \A i \in 1..Len(state_norm) : ~BeforeFuzzy(state_norm[i])

\* the text and the description of e, trimmed, joined by a space, trimmed
TextAndDescription(e) == Strip(JoinSp(Strip(e.text), Strip(e.content_desc)))
Similarity(e) == Ratio(Lower(TextAndDescription(e)), Lower(Strip(sel.value)))
ValueInBlob(e) == IsSub(Lower(Strip(sel.value)), Lower(TextAndDescription(e)))
\* similarity >= 0.6, i.e. 5 * 2M >= 3 * T
AtFloor(e) == 5 * Similarity(e)[1] >= 3 * Similarity(e)[2]
Candidate(e) == TextAndDescription(e) # "" /\ (ValueInBlob(e) \/ AtFloor(e))

\* C11: in the fuzzy tier an element is a candidate iff its text+description
\* blob is not empty and the target value is a case-insensitive substring of
\* it or the similarity is at least 0.6: the resolver returns an element iff
\* the snapshot has a candidate, and the element it returns is a candidate.
C11_FuzzyFloor ==
    FuzzyTierReached =>
        /\ found # None <=> \E i \in 1..Len(state_norm) : Candidate(state_norm[i])
        /\ found # None => InSnapshot(found) /\ Candidate(found)

\* an element with similarity exactly 0.6 (2M = 6, T = 10) and no containment
\* came back, next to an element with an empty blob
C11_Witness ==
    /\ FuzzyTierReached
    /\ Len(state_norm) = 2
    /\ TextAndDescription(state_norm[1]) = ""
    /\ Similarity(state_norm[2]) = <<6, 10>>
    /\ ~ValueInBlob(state_norm[2])
    /\ found = state_norm[2]

\* a similarity of 0.4 without containment: no candidate, nothing returned
C11_BelowFloor ==
    /\ FuzzyTierReached
    /\ Len(state_norm) = 1
    /\ Similarity(state_norm[1]) = <<4, 10>>
    /\ found = None

\* the value is a literal list of four integers, "[l, t, r, b]"
RectangleLiteral(v) ==
    \E b \in {InnerBounds, OuterBounds, FarBounds} :
        v \in {PyListStr(b), NoSpaces(PyListStr(b))}
HasThoseBounds(e) == NoSpaces(sel.value) = NoSpaces(PyListStr(e.bounds))

\* C12 as stated: a bounds target whose value is a literal rectangle that no
\* element has resolves to not-found, whatever texts the snapshot holds.
C12_AsStated ==
    (/\ pc = "resolved"
     /\ sel.by = "bounds"
     /\ RectangleLiteral(sel.value)
     /\ \A i \in 1..Len(state_norm) : ~HasThoseBounds(state_norm[i]))
    => found = None

\* the same for the snapshots in which no text or description resembles the
\* literal: there the fuzzy tier has no candidate
BoundsMissWithoutLookalike ==
    (/\ pc = "resolved"
     /\ sel.by = "bounds"
     /\ RectangleLiteral(sel.value)
     /\ \A i \in 1..Len(state_norm) :
           ~HasThoseBounds(state_norm[i]) /\ ~Candidate(state_norm[i]))
    => found = None

C13_EmptySnapshot == pc = "resolved" /\ state_norm = <<>> /\ found = None

\* score = similarity + 0.1 if the value is contained, as a fraction
SpecScore(e) ==
    <<10 * Similarity(e)[1] + (IF ValueInBlob(e) THEN Similarity(e)[2] ELSE 0),
      10 * Similarity(e)[2]>>
Outscores(e, f) == SpecScore(e)[1] * SpecScore(f)[2] > SpecScore(f)[1] * SpecScore(e)[2]
Candidates == {i \in 1..Len(state_norm) : Candidate(state_norm[i])}
\* the candidates no candidate outscores
Highest == {i \in Candidates :
               \A k \in Candidates : ~Outscores(state_norm[k], state_norm[i])}
\* a candidate that contains the value and whose similarity plus 0.1 is
\* rounded below the sum (similarity 2/3, 7/10 or 11/15)
RoundedBelow(e) ==
    /\ ValueInBlob(e)
    /\ \E q \in {<<2, 3>>, <<7, 10>>, <<11, 15>>} :
           Similarity(e)[1] * q[2] = q[1] * Similarity(e)[2]

\* C31 (as stated): in the fuzzy tier the resolver returns the candidate with
\* the highest score, score being the similarity plus 0.1 if the value is
\* contained in the blob, and of several candidates with the highest score
\* the first in snapshot order.
C31_AsStated ==
    (FuzzyTierReached /\ Candidates # {}) => found = state_norm[Min(Highest)]

\* The ranking where rounding plays no part: when no candidate with the
\* highest score is rounded below it, the first of them is returned.
RankingApartFromRounding ==
    (FuzzyTierReached /\ Candidates # {}
     /\ \A i \in Highest : ~RoundedBelow(state_norm[i]))
        => found = state_norm[Min(Highest)]

(***************************************************************************)
(* Claims about the planner, under SpecPlanner.                            *)
(***************************************************************************)
Planned == pc = "planned"
NamesAnApp == cfg.package # "" \/ cfg.app_component # ""
ForegroundAllowed ==
    \/ cfg.package # "" /\ IsSub(cfg.package, obs)
    \/ \E i \in 1..Len(cfg.allowed_packages) :
          cfg.allowed_packages[i] # "" /\ IsSub(cfg.allowed_packages[i], obs)
OpensTheApp ==
    /\ plan # PlannerRaised
    /\ plan.action = "open_app"
    /\ Has(plan, "target")
    /\ plan.target = [by |-> "component", value |-> cfg.app_component]

\* C1 (as stated): for every config that names a package and/or an app
\* component and every observation whose foreground package_activity matches
\* none of the allowed packages, plan_next_action returns open_app targeting
\* the configured component, whatever the goal, hints, snapshot and history.
C1_AsStated ==
    (Planned /\ NamesAnApp /\ ~ForegroundAllowed) => OpensTheApp

\* The guard as the code has it: with an app component configured, a
\* foreground outside the allowed packages and, when no package is
\* configured, outside the component's own package, the plan is open_app
\* on the component whatever the goal, hints, snapshot and history.
GuardPrecedence ==
    (/\ Planned
     /\ cfg.app_component # ""
     /\ ~ForegroundAllowed
     /\ (cfg.package # "" \/ ~IsSub(SplitHead(cfg.app_component), obs)))
        => OpensTheApp

\* the app guard does not fire
GuardSilent == need_open_app(obs, cfg) = None
\* what the i-th hint would plan, and whether it is active and passes the guards
HintPlan(i) == HintAction(cfg.plan_hints[i], goal, state_norm)
Survives(i) ==
    /\ HintActive(cfg.plan_hints[i], goal)
    /\ ~HintSkipped(HintPlan(i), goal, obs, state_norm, cfg, history)
Survivors == {i \in 1..Len(cfg.plan_hints) : Survives(i)}

\* C25: when the app guard does not fire, the plan is the action of the
\* first hint in declaration order that is active, passes every guard and
\* validates, and it is a fallback only when no hint does.
C25_HintPriority ==
    (Planned /\ GuardSilent) =>
        LET S == Survivors
        IN  /\ S # {} => plan = HintPlan(CHOOSE i \in S : \A j \in S : i <= j)
            /\ S = {} <=> plan = FallbackAction(cfg)

\* two hints survive with different actions and the first is the plan
C25_Witness ==
    /\ Planned /\ GuardSilent
    /\ Survivors = {1, 2}
    /\ HintPlan(1) # HintPlan(2)
    /\ plan = HintPlan(1)

\* the first hint is active and skipped by a guard, and the second is the plan
C25_SkippedFirstWitness ==
    /\ Planned /\ GuardSilent
    /\ Len(cfg.plan_hints) = 2
    /\ HintActive(cfg.plan_hints[1], goal)
    /\ Survivors = {2}
    /\ plan = HintPlan(2)

\* the hint whose action is the plan
ReturnedHint ==
    LET S == Survivors IN cfg.plan_hints[CHOOSE i \in S : \A j \in S : i <= j]
PlanTargetOnScreen ==
    /\ Has(plan, "target")
    /\ find_by_selector(state_norm, plan.target.by, plan.target.value) # None

\* C26 (as stated): a tap or open_app taken from a hint has a target that
\* resolves to an element of the snapshot, whether the hint names it as an
\* explicit target, a preference list or a regex-derived target.
C26_AsStated ==
    (Planned /\ GuardSilent /\ Survivors # {}
     /\ plan.action \in {"tap", "open_app"}) => PlanTargetOnScreen

\* What the code resolves: a tap whose hint names its target by a
\* preference list is returned only with a selector that finds an element.
PreferenceListResolved ==
    (Planned /\ GuardSilent /\ Survivors # {} /\ plan.action = "tap"
     /\ ReturnedHint.target = None /\ ReturnedHint.prefer # <<>>)
        => PlanTargetOnScreen

\* C27: while the foreground package_activity shows the configured package
\* or an allowed package, the plan is never open_app, neither from the app
\* guard nor from an open_app hint.
C27_OpenAppIdempotent ==
    (Planned /\ ForegroundAllowed) => plan.action # "open_app"

\* an allowed package other than the configured one is in the foreground,
\* the first hint is an open_app hint, and the plan is something else
C27_Witness ==
    /\ Planned /\ ForegroundAllowed
    /\ ~IsSub(cfg.package, obs)
    /\ cfg.plan_hints # <<>>
    /\ cfg.plan_hints[1].action = "open_app"
    /\ HintActive(cfg.plan_hints[1], goal)
    /\ plan.action # "open_app"

GoalMentionsSearch == IsSub("search", Lower(goal))
TextEntryShown ==
    \E i \in 1..Len(state_norm) :
        \/ IsSub("edittext", Lower(state_norm[i].class))
        \/ \E id \in {"search_src_text", "search_edit_text"} :
               IsSub(id, Lower(state_norm[i].resource_id))
SearchScreen ==
    \E mark \in {"searchactivity", ".search"} : IsSub(mark, Lower(obs))
\* a tap hint that is active for the goal and has a target
TapHintReady(i) ==
    /\ cfg.plan_hints[i].action = "tap"
    /\ HintActive(cfg.plan_hints[i], goal)
    /\ Has(HintPlan(i), "target")

\* C28: when the goal mentions "search" and the snapshot has a text-entry
\* field (a class containing EditText, or a search resource id) or the
\* foreground activity is a search screen, the plan is never a tap.
C28_SearchRetapGuard ==
    (Planned /\ GoalMentionsSearch /\ (TextEntryShown \/ SearchScreen))
        => plan.action # "tap"

\* the first hint is a ready tap hint, skipped on a screen with a text-entry
\* field, and a later hint decided the action
C28_Witness ==
    /\ Planned /\ GuardSilent /\ GoalMentionsSearch
    /\ TextEntryShown /\ ~SearchScreen
    /\ Len(cfg.plan_hints) = 2
    /\ TapHintReady(1)
    /\ plan = HintPlan(2)

\* the first hint is a ready tap hint, skipped on a search screen without a
\* text-entry field, and the fallback decided the action
C28_SearchScreenWitness ==
    /\ Planned /\ GuardSilent /\ GoalMentionsSearch
    /\ SearchScreen /\ ~TextEntryShown
    /\ Len(cfg.plan_hints) = 1
    /\ TapHintReady(1)
    /\ plan = FallbackAction(cfg)

NoHintSurvives == Planned /\ GuardSilent /\ Survivors = {}
ScrollAllowed == cfg.fallback_scroll_if_not_found \in {"true", "unset"}
\* the scroll arguments: the defaults, each overridden by fallback_scroll_args
ScrollArg(k) ==
    IF k \in DOMAIN cfg.fallback_scroll_args THEN cfg.fallback_scroll_args[k]
    ELSE CASE k = "direction" -> "down"
           [] k = "duration_ms" -> 500
           [] k = "length_factor" -> <<7, 10>>

\* C29: when the app guard does not fire and no hint survives, the plan is
\* a scroll (down, 500 ms, length factor 0.7, each overridden by
\* fallback_scroll_args) if fallback_scroll_if_not_found is true or unset,
\* and a wait of 500 ms if and only if scrolling is disallowed; the planner
\* always returns an action.
C29_Fallbacks ==
    /\ NoHintSurvives =>
           IF ScrollAllowed
           THEN /\ plan.action = "scroll"
                /\ plan.args =
                       [k \in {"direction", "duration_ms", "length_factor"}
                               \cup DOMAIN cfg.fallback_scroll_args |-> ScrollArg(k)]
           ELSE plan = [action |-> "wait", args |-> [duration_ms |-> 500]]
    /\ Planned => Has(plan, "action") /\ plan.action \in ActionEnum
    /\ (Planned /\ plan.action = "wait") => ~ScrollAllowed

\* no hint survives, scrolling is allowed and fallback_scroll_args overrides
\* the direction and leaves the duration at its default
C29_Witness ==
    /\ NoHintSurvives /\ cfg.plan_hints # <<>>
    /\ cfg.fallback_scroll_if_not_found = "true"
    /\ plan.action = "scroll"
    /\ plan.args.direction = "up" /\ plan.args.duration_ms = 500

\* no hint survives, scrolling is disallowed and the plan is the wait
C29_WaitWitness ==
    /\ NoHintSurvives /\ cfg.plan_hints # <<>>
    /\ ~ScrollAllowed
    /\ plan.action = "wait"

(***************************************************************************)
(* Claims about the anti-repeat guard of type hints, under SpecRepeat,     *)
(* where the first hint is an applicable type hint and nothing but the     *)
(* guard can skip it.                                                      *)
(***************************************************************************)
TypeHintSkipped == Planned /\ plan.action # "type"
TypeHintText == Lower(Strip(TextArg(HintArgs(cfg.plan_hints[1], goal))))
\* the places of the last three history entries
Recent == {i \in 1..Len(history) : i > Len(history) - 3}
TypedAt(i) == history[i].plan.action = "type"
TextAt(i) == Lower(Strip(TextArg(PlanArgs(history[i].plan))))

\* C14 as stated: the type hint is skipped iff one of the last three plans is
\* a type action whose trimmed, lower-cased text equals the hint's text.
C14_AsStated ==
    Planned =>
        (TypeHintSkipped <=> \E i \in Recent : TypedAt(i) /\ TextAt(i) = TypeHintText)

\* C14, amended: the type hint is skipped iff one of the last three plans is
\* a type action and the hint's trimmed text is empty or equals, lower-cased,
\* that action's trimmed, lower-cased text; type actions older than the last
\* three entries never cause the skip.
C14_AntiRepeat ==
    Planned =>
        (TypeHintSkipped <=>
            \E i \in Recent :
                TypedAt(i) /\ (TypeHintText = "" \/ TextAt(i) = TypeHintText))

\* the same text was typed four entries ago only, a different text since:
\* the hint is planned
C14_Witness ==
    /\ Planned
    /\ Len(history) = 4
    /\ TypeHintText = "socks"
    /\ TypedAt(1) /\ TextAt(1) = "socks"
    /\ \E i \in Recent : TypedAt(i) /\ TextAt(i) = "shoes"
    /\ \A i \in Recent : TextAt(i) # "socks"
    /\ plan.action = "type"

\* the text differs in case and blanks from the one typed two entries ago:
\* the hint is skipped
C14_SkippedWitness ==
    /\ Planned
    /\ cfg.plan_hints[1].args = [text |-> "Socks "]
    /\ Len(history) = 3
    /\ TypedAt(2) /\ PlanArgs(history[2].plan) = [text |-> " SOCKS"]
    /\ ~TypedAt(1) /\ ~TypedAt(3)
    /\ TypeHintSkipped

ActionNames ==
    {"tap", "type", "swipe", "back", "scroll", "open_app", "wait", "keyevent"}
Discriminants ==
    {"resource-id", "text", "content-desc", "bounds", "element_id", "component"}
ActionReturned == Planned /\ plan # PlannerRaised
ModelAnswered == trace[Len(trace)].answer

\* C16: every action a planner returns (rule-based, Gemini, remote, Llama)
\* has an action of the closed set and, when it has a target, a target with
\* a by of the closed discriminant set and a (string) value.
C16_ReturnedActionsValid ==
    ActionReturned =>
        /\ "action" \in DOMAIN plan /\ plan.action \in ActionNames
        /\ "target" \in DOMAIN plan =>
               /\ {"by", "value"} \subseteq DOMAIN plan.target
               /\ plan.target.by \in Discriminants

\* the model answered with an action outside the set and the remote planner
\* returned its wait instead
C16_Witness ==
    /\ ActionReturned
    /\ planner = "remote"
    /\ ModelAnswered = [action |-> "click"]
    /\ plan = WaitAction

ModelDriven == planner \in {"gemini", "remote", "llama"}
GuardDemandsOpenApp == need_open_app(obs, cfg) # None
OpensTheComponent ==
    /\ plan.action = "open_app"
    /\ plan.target = [by |-> "component", value |-> cfg.app_component]

\* C17 as stated: a model-driven planner returns open_app on the configured
\* component wherever _need_open_app demands it, whatever the model
\* answered, and forces no open_app where _need_open_app demands none.
C17_AsStated ==
    (ActionReturned /\ ModelDriven) =>
        IF GuardDemandsOpenApp THEN OpensTheComponent
        ELSE OpensTheComponent => ModelAnswered = plan

\* the guard the remote and Llama planners do apply: package configured and
\* not in the foreground, component configured
ModelDrivenGuard ==
    (ActionReturned /\ planner \in {"remote", "llama"}) =>
        IF ForcesOpenApp(obs, cfg) THEN OpensTheComponent
        ELSE OpensTheComponent => ModelAnswered = plan

(***************************************************************************)
(* Claims about the control loop, under Spec.                              *)
(***************************************************************************)
Executions == {k \in 1..Len(trace) : trace[k].call = "exec_action"}
FailedExecutions == {k \in Executions : ~trace[k].report.success}
Ended == pc = "exit"

\* C18: a report of exec_action without success ends the run with exit(4):
\* the failed call is the last thing the run did (no further action, no
\* verifier call), the step left no history record, the action of the step
\* was passed to exec_action once, and no primitive was repeated for it.
C18_ActionFailureFatal ==
    \A k \in FailedExecutions :
        /\ k = Len(trace)
        /\ Ended /\ outcome = "exit(4)"
        /\ Len(history) = step - 1
        /\ Cardinality(Executions) = step
        /\ \A i, j \in 1..Len(trace[k].report.adb) :
               trace[k].report.adb[i] = trace[k].report.adb[j] => i = j

\* the device refused a primitive in the second cycle, after a first cycle
\* that acted and verified
C18_Witness ==
    /\ FailedExecutions # {}
    /\ step = 2
    /\ Len(history) = 1
    /\ trace[Len(trace)].report.adb # <<>>

JustPlanned == trace # <<>> /\ trace[Len(trace)].call = "plan"

\* the action a remote or Llama planner holds when it validates: the answer
\* of the model after the app-presence correction
Candidate19 == Corrected(trace[Len(trace)].answer, obs, cfg)

\* C19: whenever the selected planner produces an action that fails schema
\* validation, or raises, the run stops with exit(3).
C19_AsStated ==
    (/\ JustPlanned
     /\ \/ trace[Len(trace)].raised
        \/ /\ planner \in {"remote", "llama"}
           /\ trace[Len(trace)].answer \notin {None, ApiFailure}
           /\ ~SchemaValid(Candidate19))
    => outcome = "exit(3)"

\* what the loop does guarantee: every action passed to exec_action is
\* schema-valid, and a planner that raises ends the run with exit(3) before
\* any action of that step
ExecutedActionsValid == \A k \in Executions : SchemaValid(trace[k].plan)
PlannerRaiseFatal ==
    \A k \in 1..Len(trace) :
        (trace[k].call = "plan" /\ trace[k].raised) =>
            /\ k = Len(trace)
            /\ Ended /\ outcome = "exit(3)"
            /\ Cardinality(Executions) = step - 1

\* the remote planner replaced an unknown action name by a wait, which the
\* loop executed
InvalidAnswerExecutedAsWait ==
    /\ planner = "remote"
    /\ \E k \in Executions :
          /\ trace[k - 1].answer = [action |-> "click"]
          /\ trace[k].plan = WaitAction

\* the observations that open a cycle (with --llm-verify each cycle makes a
\* second one, handed to verify_goal_gemini)
CycleObservations ==
    {k \in 1..Len(trace) :
        /\ trace[k].call = "observe"
        /\ k = Len(trace) \/ trace[k + 1].call # "verify_goal_gemini"}

WithinBudget ==
    /\ step <= max_steps
    /\ Cardinality(CycleObservations) = step
    /\ Cardinality(Executions) <= max_steps
OneOutcome ==
    /\ outcome \in {"", "SUCCESS", "exit(3)", "exit(4)", "exit(5)"}
    /\ Ended <=> outcome # ""
ExhaustedOnlyAfterAllCycles ==
    outcome = "exit(5)" =>
        /\ Cardinality(CycleObservations) = max_steps
        /\ \A k \in CycleObservations : ~trace[k].satisfied
        /\ Len(history) = max_steps

\* C20: as long as every call returns, a run ends; it makes at most max_steps
\* cycles and at most max_steps exec_action calls; it ends with exactly one
\* of success, exit(3), exit(4), exit(5), which never changes afterwards; and
\* exit(5) is reported only after max_steps cycles whose observations all
\* failed the termination condition.
C20_StepBudget ==
    /\ [](WithinBudget /\ OneOutcome /\ ExhaustedOnlyAfterAllCycles)
    /\ [][outcome # "" => outcome' = outcome]_vars
    /\ <>[]Ended

\* the budget ran out after MaxSteps full cycles
C20_Witness ==
    /\ outcome = "exit(5)"
    /\ max_steps = MaxSteps
    /\ Cardinality(Executions) = MaxSteps

VerifyCalls == {k \in 1..Len(trace) : trace[k].call = "verify_and_retry"}
FailedVerifications == {k \in VerifyCalls : ~trace[k].ok}

\* the history record of the cycle whose verifier call is trace[k]
RecordOf(k) == history[Cardinality({i \in VerifyCalls : i <= k})]

\* C21: a verifier report with ok = false is recorded in history and the loop
\* goes on to the next cycle: the run is either still running, or it ended
\* for another reason (the step budget, a later cycle, or with --llm-verify
\* the success of the post-action check).
C21_VerifyFailureNonFatal ==
    \A k \in FailedVerifications :
        /\ Len(history) >= Cardinality({i \in VerifyCalls : i <= k})
        /\ ~RecordOf(k).verify.ok
        /\ k = Len(trace) =>
               \/ pc = "observe" /\ outcome = ""
               \/ outcome = "exit(5)" /\ step = max_steps
        /\ (llm_verify /\ k + 2 = Len(trace)) =>
               \/ pc = "observe" /\ outcome = ""
               \/ outcome = "exit(5)" /\ step = max_steps
               \/ /\ outcome = "SUCCESS"
                  /\ trace[k + 1].satisfied /\ trace[k + 2].ok

\* after a failed verification the loop observed again and planned the
\* second cycle
C21_Witness ==
    /\ pc = "act" /\ step = 2
    /\ 1 \in {Cardinality({i \in VerifyCalls : i <= k}) : k \in FailedVerifications}
    /\ ~history[1].verify.ok

\* C22: history changes only by the loop appending one record {obs, plan,
\* exec, verify} of the cycle after its verify phase: the entries before it
\* stay as they were, planning and acting leave history alone, and its
\* length is the number of completed cycles.
C22_HistoryAppendOnly ==
    /\ [](Len(history) = Cardinality(VerifyCalls))
    /\ [][\/ history' = history
          \/ /\ pc = "verify"
             /\ Len(history') = Len(history) + 1
             /\ SubSeq(history', 1, Len(history)) = history
             /\ DOMAIN history'[Len(history')] = {"obs", "plan", "exec", "verify"}
             /\ history'[Len(history')].obs = obs
             /\ history'[Len(history')].plan = plan
             /\ history'[Len(history')].exec.success]_vars

\* two cycles were completed and recorded, in order
C22_Witness ==
    /\ Len(history) = 2
    /\ pc = "observe"
    /\ history[1].plan.action = "type"
    /\ history[2].plan.action = "keyevent"

SuccessAtCycleStart ==
    /\ trace[Len(trace)].call = "observe"
    /\ trace[Len(trace)].satisfied
    /\ goal_satisfied(obs, state_norm, termination)
SuccessAfterAction ==
    /\ llm_verify /\ planner = "gemini"
    /\ trace[Len(trace)].call = "verify_goal_gemini" /\ trace[Len(trace)].ok
    /\ trace[Len(trace) - 1].call = "observe" /\ trace[Len(trace) - 1].satisfied

\* C23: success is the outcome only when the last thing the run did was an
\* observation on which goal_satisfied holds: the observation that opens a
\* cycle, or with --llm-verify the post-action observation together with a
\* verdict ok of the model; a verdict ok on an observation that does not
\* satisfy termination does not end the run.
C23_SuccessOnFreshObservation ==
    /\ outcome = "SUCCESS" => SuccessAtCycleStart \/ SuccessAfterAction
    /\ \A k \in 2..Len(trace) :
           (/\ trace[k].call = "verify_goal_gemini" /\ trace[k].ok
            /\ ~trace[k - 1].satisfied /\ k = Len(trace))
           => outcome # "SUCCESS"

\* the run ended with success on the post-action check of its first cycle
C23_Witness ==
    /\ outcome = "SUCCESS"
    /\ SuccessAfterAction
    /\ step = 1 /\ Len(history) = 1

\* the model said ok on a screen that does not satisfy termination, and the
\* loop went on
C23_VerdictAloneWitness ==
    /\ trace # <<>>
    /\ trace[Len(trace)].call = "verify_goal_gemini" /\ trace[Len(trace)].ok
    /\ ~trace[Len(trace) - 1].satisfied
    /\ pc = "observe"

(***************************************************************************)
(* The end-to-end scenario, under SpecScenario: app X is com.x, its one    *)
(* hint taps the label Settings, given as a static target or as a          *)
(* preference list.                                                        *)
(***************************************************************************)
ScenarioPlanned == pc = "act" /\ plan # None
SettingsShown == find_by_selector(state_norm, "text", "Settings") # None

\* cycle 1: another package is in the foreground and the planner opens X
ScenarioOpensApp ==
    ScenarioPlanned /\ ~IsSub("com.x", obs) => plan.action = "open_app"

\* cycle 2: X is in the foreground without Settings and the planner scrolls
ScenarioScrolls ==
    ScenarioPlanned /\ IsSub("com.x", obs) /\ ~SettingsShown => plan.action = "scroll"

\* cycle 3: Settings is a label inside a clickable row and the planner taps
\* the row by its stable id
ScenarioTapsRow ==
    ScenarioPlanned /\ IsSub("com.x", obs) /\ SettingsShown
    => /\ plan.action = "tap"
       /\ plan.target = [by |-> "element_id",
                         value |-> find_by_selector(state_norm, "text",
                                                    "Settings").element_id]

\* the tap is verified against an activity-substring expectation
ScenarioVerifiesActivity ==
    pc = "verify" /\ plan.action = "tap" => Has(BuildExpect(plan, cfg), "activity")

\* C24: in the scenario the planner opens X while another package is in
\* the foreground, scrolls while X shows no Settings, taps the clickable
\* row by its stable id once Settings shows as a label inside it, and the
\* tap is verified against an activity-substring expectation.
C24_AsStated ==
    /\ ScenarioOpensApp
    /\ ScenarioScrolls
    /\ ScenarioTapsRow
    /\ ScenarioVerifiesActivity

(***************************************************************************)
(* Claims about the termination evaluators, under SpecTermination.         *)
(***************************************************************************)
Evaluated == pc = "evaluated"
Configured == IF termination = None THEN {} ELSE DOMAIN termination

\* the configured predicate k holds on the snapshot and observation, as the
\* named evaluator matches where it has the predicate, and as the evaluator
\* that has it matches where it has not
KeyHolds(k, evaluator) ==
    LET v == termination[k]
        TextHas(i) == IsSub(Lower(Strip(v)), Lower(Strip(state_norm[i].text)))
        Present(j) == OneTextPresent(state_norm, v[j])
        Left(j) == v[j] = "" \/ ~IsSub(v[j], obs)
    IN  CASE k \in {"package", "activity"} ->
               IF evaluator = "goal_satisfied" THEN IsSub(v, obs)
               ELSE IsSub(Lower(v), Lower(obs))
          [] k = "must_contain_text" ->
               IF evaluator = "goal_satisfied"
               THEN \E i \in 1..Len(state_norm) : TextHas(i)
               ELSE OneTextPresent(state_norm, v)
          [] k = "any_of_texts" -> AnyTextPresent(state_norm, v)
          [] k = "all_of_texts" -> \A j \in 1..Len(v) : Present(j)
          [] k = "not_package_in" -> \A j \in 1..Len(v) : Left(j)

AllHold(keys, evaluator) == \A k \in keys : KeyHolds(k, evaluator)

\* C2 (as stated): for every termination spec with several configured
\* predicates, each evaluator reports satisfied if and only if every
\* configured predicate holds on the snapshot and observation.
C2_AsStated ==
    (Evaluated /\ Cardinality(Configured) >= 2) =>
        /\ gs <=> AllHold(Configured, "goal_satisfied")
        /\ (~et.raised /\ et.ok) <=> AllHold(Configured, "evaluate_termination")

\* Each evaluator is the conjunction of the predicates it reads:
\* goal_satisfied of must_contain_text, activity, package and not_package_in,
\* evaluate_termination of package, activity, must_contain_text, any_of_texts
\* and all_of_texts.
AndOfThePredicatesRead ==
    (Evaluated /\ Configured # {}) =>
        /\ gs <=> AllHold(Configured \ {"any_of_texts", "all_of_texts"},
                          "goal_satisfied")
        /\ (~et.raised /\ et.ok) <=>
               AllHold(Configured \ {"not_package_in"}, "evaluate_termination")

\* C3 (as stated): with an empty or absent termination spec both
\* goal_satisfied and evaluate_termination return not-satisfied, for every
\* snapshot and observation.
C3_AsStated ==
    (Evaluated /\ Configured = {}) => (~gs /\ ~et.raised /\ ~et.ok)

(***************************************************************************)
(* Claims about the verifier, under SpecVerifier.                          *)
(***************************************************************************)
Returned == pc = "returned"

ExpectFields == {"must_contain_text", "must_equal_text", "activity"}
ConfiguredFields == {k \in ExpectFields : Expects(expect, k)}

\* the configured expectation field k passes on the observation o
FieldPasses(k, o) ==
    LET v == expect[k]
        Shown(i) == /\ ~IsSub("edittext", Lower(o.elements[i].class))
                    /\ IsSub(Lower(Strip(v)), Lower(Strip(o.elements[i].text)))
        Equal(i) == Strip(o.elements[i].text) = Strip(v)
    IN  CASE k = "must_contain_text" -> \E i \in 1..Len(o.elements) : Shown(i)
          [] k = "must_equal_text" -> \E i \in 1..Len(o.elements) : Equal(i)
          [] k = "activity" -> IsSub(v, o.package_activity)

PassesAll(o) == \A k \in ConfiguredFields : FieldPasses(k, o)
Passing == {k \in 1..Len(observed) : PassesAll(observed[k])}

\* C4: with max_retries = n >= 1 and an expectation that fails on every
\* observation, a call of verify_and_retry that returns has made exactly n
\* observations and returns ok=false with attempts=n; at no point has a call
\* made more than max_retries observations.
C4_RetryBudget ==
    /\ Len(observed) <= max_retries
    /\ (Returned /\ max_retries >= 1 /\ expect # None /\ Passing = {}) =>
           /\ Len(observed) = max_retries
           /\ result.ok = FALSE
           /\ result.attempts = max_retries

C4_Witness ==
    /\ Returned /\ expect # None /\ ConfiguredFields # {}
    /\ max_retries = 3 /\ Len(observed) = 3 /\ Passing = {}
    /\ result.ok = FALSE /\ result.attempts = 3

\* C5 (as stated): with the expectation None, for every max_retries value,
\* verify_and_retry makes exactly one observation and returns ok=true with
\* attempts=1, without sleeping.
C5_AsStated ==
    (Returned /\ expect = None) =>
        /\ Len(observed) = 1
        /\ result.ok = TRUE /\ result.attempts = 1
        /\ sleeps = <<>>

\* With a retry budget of at least one the expectation None is met on the
\* first observation, without sleeping.
NoExpectationWithinBudget ==
    (Returned /\ expect = None /\ max_retries >= 1) =>
        /\ Len(observed) = 1
        /\ result.ok = TRUE /\ result.attempts = 1
        /\ sleeps = <<>>

\* C6: with an expectation, verify_and_retry returns ok=true exactly when
\* some observation within the budget passes every configured field, and
\* then at the first such attempt k, with attempts=k; no observation on
\* which a configured field fails yields ok=true; attempts is the number of
\* observations made, between 1 and max_retries when max_retries >= 1.
C6_FirstPassingAttempt ==
    (Returned /\ expect # None) =>
        /\ result.ok <=> Passing # {}
        /\ result.ok => /\ result.attempts = Min(Passing)
                        /\ PassesAll(result.state)
        /\ result.attempts = Len(observed)
        /\ ~result.ok => Len(observed) = max_retries
        /\ max_retries >= 1 => (1 <= result.attempts /\ result.attempts <= max_retries)

C6_Witness ==
    /\ Returned /\ expect # None
    /\ ConfiguredFields = ExpectFields
    /\ result.ok /\ result.attempts = 2
    /\ \E k \in ConfiguredFields : FieldPasses(k, observed[1])
    /\ \E k \in ConfiguredFields : ~FieldPasses(k, observed[1])

ObservationPrimitives ==
    {"uiautomator_dump", "pull", "screencap", "get_focused_activity"}

\* C7: over all the attempts of a call of verify_and_retry the only
\* adb_wrapper primitives invoked are those of an observation (the UI dump
\* and its pull, the screenshot, the foreground query), never a tap, text,
\* swipe, key-event or launch primitive, and the action argument is left
\* unchanged.
C7_OnlyObserves ==
    /\ [](\A i \in 1..Len(calls) : calls[i] \in ObservationPrimitives)
    /\ [][action' = action]_vars

C7_Witness ==
    /\ Returned /\ result.ok = FALSE
    /\ result.attempts >= 2
    /\ Len(calls) = 4 * result.attempts
    /\ action.action = "tap"

\* the attempts that failed and were not the last permitted one
SleptAfter ==
    {k \in 1..attempt :
        /\ k < max_retries
        /\ ~(k = attempt /\ pc \in {"returned", "raised"} /\ result # None
             /\ result.ok)
        /\ ~(k = attempt /\ pc = "raised")}

\* C30: the k-th failed attempt with k < max_retries is followed by a sleep
\* of 0.5 s for k = 1, 1.0 s for k = 2 and 2.0 s for k >= 3 (in tenths of a
\* second: 5, 10, 20); the sleeps never decrease, and neither a successful
\* attempt nor the last permitted attempt is followed by a sleep.
C30_BackoffSchedule ==
    /\ Len(sleeps) = Cardinality(SleptAfter)
    /\ \A k \in 1..Len(sleeps) :
           sleeps[k] = (CASE k = 1 -> 5 [] k = 2 -> 10 [] OTHER -> 20)
    /\ \A k \in 1..(Len(sleeps) - 1) : sleeps[k] <= sleeps[k + 1]
    /\ (pc = "returned" /\ result.ok) => Len(sleeps) = attempt - 1
    /\ (pc = "returned" /\ ~result.ok /\ max_retries > 0)
           => attempt = max_retries /\ Len(sleeps) = max_retries - 1

\* every permitted attempt failed and the fourth sleep reused the last value
C30_Witness ==
    /\ pc = "returned" /\ ~result.ok
    /\ attempt = 5 /\ max_retries = 5
    /\ sleeps = <<5, 10, 20, 20>>

\* the third attempt passed after two sleeps
C30_SuccessWitness ==
    /\ pc = "returned" /\ result.ok /\ attempt = 3
    /\ sleeps = <<5, 10>>

(***************************************************************************)
(* Claims about the must_contain_text checks of the verifier and of the    *)
(* termination evaluators, under SpecTermination, for the specs that       *)
(* configure must_contain_text alone.                                      *)
(***************************************************************************)
TextOnly == Evaluated /\ Configured = {"must_contain_text"}
Needle == termination["must_contain_text"]
Editable(e) == IsSub("edittext", Lower(e.class))
\* the needle stands in the text or in the description of e, in any case
NeedleIn(e) ==
    \/ IsSub(Lower(Strip(Needle)), Lower(e.text))
    \/ IsSub(Lower(Strip(Needle)), Lower(e.content_desc))
OnlyInEditable ==
    /\ \E i \in 1..Len(state_norm) : NeedleIn(state_norm[i])
    /\ \A i \in 1..Len(state_norm) : NeedleIn(state_norm[i]) => Editable(state_norm[i])
NoEditable == \A i \in 1..Len(state_norm) : ~Editable(state_norm[i])
\* the verifier's check of the same needle on the same snapshot
VerifierSees == fuzzy_text_present(state_norm, Needle)

\* C32 (as stated): a needle that occurs only inside editable text inputs
\* fails the verifier's must_contain_text check and passes that of the
\* termination evaluators; on snapshots without editable inputs the checks
\* agree for every needle (whatever its case).
C32_AsStated ==
    TextOnly =>
        /\ OnlyInEditable => ~VerifierSees /\ gs /\ et.ok
        /\ NoEditable => (VerifierSees <=> gs) /\ (VerifierSees <=> et.ok)

\* The asymmetry between the verifier and the evaluator of the control loop,
\* goal_satisfied.
LoopEvaluatorAsymmetry ==
    TextOnly =>
        /\ OnlyInEditable => ~VerifierSees /\ gs
        /\ NoEditable => (VerifierSees <=> gs)

\* the needle Done stands in an input field only, as " done ": the verifier
\* does not see it and goal_satisfied does
LoopEvaluatorAsymmetryWitness ==
    /\ TextOnly /\ OnlyInEditable /\ state_norm # <<>>
    /\ Needle = "Done" /\ ~VerifierSees /\ gs

(***************************************************************************)
(* Claims about the order of the phases of a cycle, under Spec.            *)
(***************************************************************************)
\* the call trace[k] comes where the loop body has it
InOrder(k) ==
    LET call == trace[k].call
        Before(n) == trace[k - n]
    IN  CASE call = "observe" ->
               \/ k = 1
               \/ Before(1).call = "verify_and_retry"
               \/ /\ Before(1).call = "verify_goal_gemini"
                  /\ ~(Before(1).ok /\ Before(2).satisfied)
          [] call = "plan" ->
               k > 1 /\ Before(1).call = "observe" /\ ~Before(1).satisfied
          [] call = "exec_action" ->
               k > 1 /\ Before(1).call = "plan" /\ ~Before(1).raised
          [] call = "verify_and_retry" ->
               k > 1 /\ Before(1).call = "exec_action" /\ Before(1).report.success
          [] call = "verify_goal_gemini" ->
               /\ k > 2 /\ Before(1).call = "observe"
               /\ Before(2).call = "verify_and_retry"

\* the phase the loop is in follows from the last call it made
PhaseFollowsTrace ==
    LET last == trace[Len(trace)]
    IN  CASE pc = "decide" -> last.call = "observe" /\ ~last.satisfied
          [] pc = "act" -> last.call = "plan" /\ ~last.raised
          [] pc = "verify" -> last.call = "exec_action" /\ last.report.success
          [] pc = "observe" ->
               trace = <<>> \/ last.call \in {"verify_and_retry", "verify_goal_gemini"}
          [] OTHER -> TRUE

\* C33: the calls of a run come in the order observe (with the termination
\* check), plan, act, verify, history append, cycle after cycle: a cycle
\* starts only once the one before has appended its record, a cycle whose
\* observation satisfies termination neither plans nor acts, and an action
\* is executed only after the one before it has been verified.
C33_CycleOrdering ==
    /\ \A k \in 1..Len(trace) : InOrder(k)
    /\ PhaseFollowsTrace
    /\ Len(history) = Cardinality(VerifyCalls)
    /\ step = Cardinality(CycleObservations)
    /\ Cardinality(VerifyCalls) <= Cardinality(Executions)
    /\ Cardinality(Executions) <= Cardinality(VerifyCalls) + 1
    /\ \A k \in CycleObservations :
           trace[k].satisfied => k = Len(trace) /\ outcome = "SUCCESS"

\* the second cycle ended on an observation that satisfies termination,
\* after a first cycle that went through all its phases
C33_Witness ==
    /\ outcome = "SUCCESS"
    /\ step = 2 /\ Len(history) = 1
    /\ Len(trace) = 5
    /\ trace[5].call = "observe" /\ trace[5].satisfied

(***************************************************************************)
(* Claims about the arguments of the decision functions, under             *)
(* SpecScenario: the planner hands out the hint's own target, and the      *)
(* action goes to exec_action, to verify_and_retry and into history.       *)
(***************************************************************************)
\* the records of history stay as they were appended
HistoryKept ==
    /\ Len(history') >= Len(history)
    /\ \A i \in 1..Len(history) : history'[i] = history[i]

\* C34: the termination check of an observation, the planner and the
\* resolver it calls leave the config (hint targets and fallback_scroll_args
\* included), the termination spec, the goal and history as they were, the
\* planner also the snapshot and the observation; exec_action and
\* verify_and_retry leave the action they are given as it was, and a record
\* of history, its action included, is never changed by a later call.
C34_Purity ==
    [][/\ cfg' = cfg /\ termination' = termination /\ goal' = goal
       /\ HistoryKept
       /\ pc = "observe" => history' = history
       /\ pc = "decide" => history' = history /\ state_norm' = state_norm /\ obs' = obs
       /\ pc \in {"act", "verify"} =>
              plan' = plan /\ state_norm' = state_norm /\ obs' = obs
       /\ history' # history => history'[Len(history')].plan = plan]_vars

\* two later cycles have planned, acted and verified since the first action,
\* a tap on the hint's target, went into history
C34_Witness ==
    /\ Len(history) = 3
    /\ history[1].plan = [action |-> "tap", target |-> SettingsSel]
    /\ history[3].plan # history[1].plan

(***************************************************************************)
(* run_goal.py: main from logger = RunLogger() on.  The planners are       *)
(* constructed before the try block whose finally clause closes the log;   *)
(* an observation of the loop can raise.                                   *)
(***************************************************************************)
InitRunLog ==
    /\ pc = "start"
    /\ goal = "search for socks then press enter"
    /\ cfg = [app_component |-> "com.x/.Main", package |-> "com.x",
              allowed_packages |-> <<>>,
              plan_hints |->
                  <<[NoHint EXCEPT !.keys = {"when_goal_regex"},
                                   !.when_goal_regex = "search for ", !.action = "type",
                                   !.args_from_regex_group = [text |-> 1]]>>,
              fallback_scroll_if_not_found |-> "unset",
              fallback_scroll_args |-> EmptyArgs]
    /\ termination = [package |-> "com.x", must_contain_text |-> "Done"]
    /\ planner \in {"gemini", "remote", "llama", "rule"}
    /\ llm_verify \in BOOLEAN
    /\ max_steps \in 0..MaxSteps
    /\ max_retries = 3
    /\ step = 0 /\ outcome = "" /\ trace = <<>> /\ history = <<>>
    /\ logger = RunLogger /\ device = None
    /\ obs = "" /\ state_norm = <<>> /\ plan = None /\ replan = None
    /\ sel = None /\ found = None /\ gs = FALSE /\ et = None
    /\ action = None /\ expect = None /\ attempt = 0 /\ observed = <<>>
    /\ sleeps = <<>> /\ calls = <<>> /\ result = None

\* the planner asked for is constructed: its module may be missing (exit(2))
\* and its constructor may raise; --llm-verify is dropped without Gemini
StartUp ==
    /\ pc = "start"
    /\ \E built \in (IF planner = "rule" THEN {"ok"}
                     ELSE {"ok", "unavailable", "raised"}) :
          /\ outcome' = CASE built = "ok" -> outcome
                          [] built = "unavailable" -> "exit(2)"
                          [] built = "raised" -> "exception"
          /\ pc' = IF built = "ok" THEN "observe" ELSE "exit"
    /\ llm_verify' = (llm_verify /\ planner = "gemini")
    /\ UNCHANGED <<state_norm, obs, resolverVars, terminationVars, plannerVars,
                   verifierVars, step, max_steps, planner, trace, replan, logger,
                   device>>

\* observe() raises inside the try block: the finally clause runs and the
\* exception ends the run
ObservationRaises ==
    /\ pc = "observe"
    /\ BudgetLeft
    /\ step' = step + 1
    /\ trace' = Append(trace, [call |-> "observe", raised |-> TRUE])
    /\ outcome' = "exception"
    /\ pc' = "exit"
    /\ logger' = close(logger)
    /\ UNCHANGED <<state_norm, obs, resolverVars, terminationVars, plannerVars,
                   verifierVars, max_steps, planner, llm_verify, replan, device>>

NextRunLog ==
    StartUp \/ Observe \/ ObservationRaises \/ Exhausted \/ Decide \/ Act \/ Verify

SpecRunLog == InitRunLog /\ [][NextRunLog]_vars

(***************************************************************************)
(* Claims about the lifetime of the run log, under SpecRunLog.             *)
(***************************************************************************)
\* the run ended while the planner was being constructed
EndedAtStartUp == pc = "exit" /\ step = 0 /\ trace = <<>> /\ outcome # "exit(5)"

\* C35: once the run logger has been opened it is closed on every exit path
\* of the runner (success, planner error, action failure, step-budget
\* exhaustion, planner-construction failure, an exception raised by an
\* observation), and no record is written after close.
C35_AsStated ==
    /\ [](pc = "exit" => logger.f = "closed")
    /\ [][logger.f = "closed" => logger' = logger]_vars

\* every way out of the try block closes the log, and nothing is written
\* after that
ClosedByFinally ==
    /\ [](pc = "exit" /\ ~EndedAtStartUp => logger.f = "closed")
    /\ [](pc # "exit" => logger.f = "open")
    /\ [][logger.f = "closed" => logger' = logger]_vars

\* each way out of the try block has been taken and has written its last record
ClosedByFinallyWitness ==
    /\ pc = "exit" /\ logger.f = "closed"
    /\ outcome = "exit(4)"
    /\ logger.records[Len(logger.records)] = "act_failure"

\* the run ended at start-up with the log left open
LeftOpenWitness == EndedAtStartUp /\ logger.f = "open" /\ outcome = "exit(2)"

(***************************************************************************)
(* run_goal.py: main, on a device whose screen only the run's actions      *)
(* change: what an observation finds is what the last action left.         *)
(***************************************************************************)
InitSettled ==
    /\ pc = "observe"
    /\ goal = "search for socks then press enter"
    /\ cfg = [app_component |-> "com.x/.Main", package |-> "com.x",
              allowed_packages |-> <<>>,
              plan_hints |->
                  <<[NoHint EXCEPT !.keys = {"when_goal_regex"},
                                   !.when_goal_regex = "search for ", !.action = "type",
                                   !.args_from_regex_group = [text |-> 1]]>>,
              fallback_scroll_if_not_found |-> "unset",
              fallback_scroll_args |-> EmptyArgs]
    /\ termination = [package |-> "com.x", must_contain_text |-> "Done"]
    /\ planner \in {"gemini", "rule"}
    /\ llm_verify \in (IF planner = "gemini" THEN BOOLEAN ELSE {FALSE})
    /\ max_steps \in 0..MaxSteps
    /\ max_retries = 3
    /\ step = 0 /\ outcome = "" /\ trace = <<>> /\ history = <<>>
    /\ logger = RunLogger
    /\ device \in LoopScreens
    /\ obs = "" /\ state_norm = <<>> /\ plan = None /\ replan = None
    /\ sel = None /\ found = None /\ gs = FALSE /\ et = None
    /\ action = None /\ expect = None /\ attempt = 0 /\ observed = <<>>
    /\ sleeps = <<>> /\ calls = <<>> /\ result = None

SpecSettled == InitSettled /\ [][Next]_vars

(***************************************************************************)
(* Claims about reaching the goal within the step budget, under            *)
(* SpecSettled.                                                            *)
(***************************************************************************)
\* the device shows a screen that satisfies the termination spec
GoalStateShown == goal_satisfied(device.act, device.elems, termination)

\* C36: if an executed action, the last one the budget allows included,
\* brings the device into a state that satisfies the termination spec and
\* the state then stays unchanged, the run ends with success rather than
\* with step-budget exhaustion.
C36_AsStated == outcome = "exit(5)" /\ history # <<>> => ~GoalStateShown

\* an observation of the loop that finds the goal state ends the run with
\* success, so an action before the last cycle that reaches it is noticed
SuccessAtNextObservation ==
    [][pc = "observe" /\ BudgetLeft /\ GoalStateShown => outcome' = "SUCCESS"]_vars

\* the goal state was reached by an action before the last cycle and found
\* by the observation of the cycle after it
SuccessAtNextObservationWitness ==
    /\ outcome = "SUCCESS" /\ step = 2 /\ Len(history) = 1
    /\ trace[Len(trace)].call = "observe"

\* the only action the budget allows reached the goal state and the run
\* ended with exit(5)
ExhaustedAtGoalWitness ==
    /\ outcome = "exit(5)" /\ max_steps = 1 /\ Len(history) = 1
    /\ ~llm_verify /\ GoalStateShown

(***************************************************************************)
(* planner.py: _find_first_present; actuator.py: _resolve_tap_target.  A   *)
(* run of the rule-based planner whose one hint taps the first selector of *)
(* its preference list that is present; the normalizer gives a node        *)
(* without parsable bounds the bounds [0, 0, 0, 0].                        *)
(***************************************************************************)
ZeroBounds == <<0, 0, 0, 0>>

AgreementScreens ==
    {[act |-> "com.x/.Main", elems |-> <<>>],
     [act |-> "com.x/.Main",
      elems |-> <<Element("", "Settings", "", TextViewClass, InnerBounds, FALSE)>>],
     [act |-> "com.x/.Main",
      elems |-> <<Element("id/row", "", "", "android.widget.LinearLayout",
                          OuterBounds, TRUE),
                  Element("", "Settings", "", TextViewClass, InnerBounds, FALSE)>>],
     [act |-> "com.x/.Main",
      elems |-> <<Element("", "Settings", "", TextViewClass, ZeroBounds, FALSE)>>],
     [act |-> "com.x/.Main",
      elems |-> <<Element("", "", "All settings", TextViewClass, ZeroBounds, TRUE),
                  Element("", "Settings", "", TextViewClass, InnerBounds, TRUE)>>]}

InitAgreement ==
    /\ pc = "observe"
    /\ goal = "open the settings"
    /\ cfg \in {[app_component |-> "com.x/.Main", package |-> "com.x",
                 allowed_packages |-> <<>>, plan_hints |-> <<h>>,
                 fallback_scroll_if_not_found |-> "unset",
                 fallback_scroll_args |-> EmptyArgs] :
                    h \in {[NoHint EXCEPT !.keys = {"when_goal_contains_any"},
                                          !.when_goal_contains_any = <<"settings">>,
                                          !.action = "tap",
                                          !.prefer = <<SettingsSel>>],
                           [NoHint EXCEPT !.keys = {"when_goal_contains_any"},
                                          !.when_goal_contains_any = <<"settings">>,
                                          !.action = "tap",
                                          !.target_prefer =
                                              <<[by |-> "content-desc",
                                                 value |-> "settings"],
                                                SettingsSel>>]}}
    /\ termination = [package |-> "com.x", must_contain_text |-> "Done"]
    /\ planner = "rule"
    /\ llm_verify = FALSE
    /\ max_steps \in 0..MaxSteps
    /\ max_retries = 3
    /\ step = 0 /\ outcome = "" /\ trace = <<>> /\ history = <<>>
    /\ logger = RunLogger
    /\ device \in AgreementScreens
    /\ obs = "" /\ state_norm = <<>> /\ plan = None /\ replan = None
    /\ sel = None /\ found = None /\ gs = FALSE /\ et = None
    /\ action = None /\ expect = None /\ attempt = 0 /\ observed = <<>>
    /\ sleeps = <<>> /\ calls = <<>> /\ result = None

SpecAgreement == InitAgreement /\ [][Next]_vars

(***************************************************************************)
(* Claims about the planner and the actuator resolving the same selector,  *)
(* under SpecAgreement.                                                    *)
(***************************************************************************)
\* the calls of exec_action with a tap (here every tap comes from the hint's
\* preference list)
TapCalls ==
    {k \in 1..Len(trace) : trace[k].call = "exec_action" /\ trace[k].plan.action = "tap"}

\* C37: a tap that the planner emits from a hint's prefer/target_prefer list
\* resolves in exec_action, against the same snapshot, to the element the
\* planner found present; exec_action never answers "tap target not found"
\* (a refusal without any primitive) and never taps at (0, 0) for it.
C37_AsStated ==
    /\ pc = "act" /\ plan.action = "tap" =>
           find_by_selector(state_norm, plan.target.by, plan.target.value) # None
    /\ \A k \in TapCalls : trace[k].report.adb = <<"input_tap">>

\* the element the planner found is the one exec_action resolves, and the
\* tap is refused exactly when that element's centre is (0, 0)
SameElementResolved ==
    /\ pc = "act" /\ plan.action = "tap" =>
           find_by_selector(state_norm, plan.target.by, plan.target.value) # None
    /\ pc \in {"verify", "exit"} /\ trace # <<>> /\ Len(trace) \in TapCalls =>
           LET e == find_by_selector(state_norm, plan.target.by, plan.target.value)
           IN  /\ e # None
               /\ trace[Len(trace)].report.adb = <<>> <=> e.center = <<0, 0>>

\* a tap at the centre of the element found was issued
SameElementResolvedWitness ==
    /\ pc = "verify" /\ Len(trace) \in TapCalls
    /\ trace[Len(trace)].report.adb = <<"input_tap">>
    /\ \E i \in 1..Len(cfg.plan_hints[1].target_prefer) :
           plan.target = cfg.plan_hints[1].target_prefer[i]

\* the planner found the element and exec_action refused the tap
TapRefusedWitness ==
    /\ outcome = "exit(4)" /\ Len(trace) \in TapCalls
    /\ trace[Len(trace)].report.adb = <<>>
    /\ find_by_selector(state_norm, plan.target.by, plan.target.value) # None

(***************************************************************************)
(* run_goal.py: main with the rule-based planner and a config of two type  *)
(* hints with different texts, so that a second type action can follow an  *)
(* ENTER within three history entries.                                     *)
(***************************************************************************)
NudgeSteps == MaxSteps + 2

InitNudge ==
    /\ pc = "observe"
    /\ goal \in {"search for socks then press enter", "search for socks"}
    /\ cfg = [app_component |-> "com.x/.Main", package |-> "com.x",
              allowed_packages |-> <<>>,
              plan_hints |->
                  <<[NoHint EXCEPT !.keys = {"when_goal_regex"},
                                   !.when_goal_regex = "search for ", !.action = "type",
                                   !.args_from_regex_group = [text |-> 1]],
                    [NoHint EXCEPT !.action = "type", !.args = [text |-> "socks"]]>>,
              fallback_scroll_if_not_found |-> "unset",
              fallback_scroll_args |-> EmptyArgs]
    /\ termination = [package |-> "com.x", must_contain_text |-> "Done"]
    /\ planner = "rule"
    /\ llm_verify = FALSE
    /\ max_steps \in 0..NudgeSteps
    /\ max_retries = 3
    /\ step = 0 /\ outcome = "" /\ trace = <<>> /\ history = <<>>
    /\ logger = RunLogger /\ device = None
    /\ obs = "" /\ state_norm = <<>> /\ plan = None /\ replan = None
    /\ sel = None /\ found = None /\ gs = FALSE /\ et = None
    /\ action = None /\ expect = None /\ attempt = 0 /\ observed = <<>>
    /\ sleeps = <<>> /\ calls = <<>> /\ result = None

SpecNudge == InitNudge /\ [][Next]_vars

(***************************************************************************)
(* Claims about the enter-after-type nudge, under SpecNudge.               *)
(***************************************************************************)
\* {"action": "keyevent", "args": {"key": "ENTER"}}
EnterKey(p) == p.action = "keyevent" /\ KeyArg(PlanArgs(p)) = "ENTER"

\* the decision of the cycle is the nudge: no hint of this config and
\* neither fallback of the planner is a keyevent
Nudged == pc = "act" /\ EnterKey(plan)

\* the goal contains one of the trigger phrases
AsksForEnter ==
    \E t \in {"[return]", " press enter", " hit enter", " press return",
              " hit return", " press go", " tap go", " hit go", " then go",
              " press search", " hit search", " then search", " input [return]"} :
        IsSub(t, Lower(goal))

\* the history entry i holds an ENTER or SEARCH keyevent
SentEnterOrSearch(i) ==
    /\ history[i].plan.action = "keyevent"
    /\ Lower(KeyArg(PlanArgs(history[i].plan))) \in {"enter", "search"}

\* C38: the loop decides on keyevent ENTER in place of the planner only in a
\* cycle whose immediately preceding history entry is a type action, whose
\* goal contains a trigger phrase and none of whose last 3 history entries
\* is an ENTER or SEARCH keyevent; so the nudge never comes in two
\* consecutive cycles and never as the first action of a run.
C38_EnterAfterType ==
    Nudged =>
        /\ history # <<>>
        /\ history[Len(history)].plan.action = "type"
        /\ AsksForEnter
        /\ \A i \in 1..Len(history) : i > Len(history) - 3 => ~SentEnterOrSearch(i)
        /\ ~EnterKey(history[Len(history)].plan)
        /\ \E k \in 1..Len(trace) : trace[k].call = "exec_action"

\* the nudge follows the type action of the cycle before
C38_Witness ==
    /\ Nudged /\ Len(history) = 1
    /\ history[1].plan.action = "type"

\* a type action follows the nudge: no second nudge while the ENTER is among
\* the last 3 entries
C38_HeldBackWitness ==
    /\ pc = "act" /\ Len(history) = 3 /\ AsksForEnter
    /\ EnterKey(history[2].plan) /\ history[3].plan.action = "type"
    /\ ~EnterKey(plan)

(***************************************************************************)
(* Claims about the two termination evaluators on the predicates both      *)
(* read, under SpecTermination.                                            *)
(***************************************************************************)
SharedKeys == {"package", "activity", "must_contain_text"}
OnSharedKeys == Evaluated /\ Configured # {} /\ Configured \subseteq SharedKeys

\* C39: for every snapshot, observation and non-empty termination spec of
\* package, activity and must_contain_text only, goal_satisfied returns true
\* exactly when evaluate_termination returns ok=true.
C39_AsStated == OnSharedKeys => (gs <=> et.ok)

\* the inputs on which the evaluators cannot part: the observation holds no
\* value of the spec in another case, and the needle has no blanks around it,
\* is not empty and stands in no description
PlainInputs ==
    /\ \A k \in Configured \cap {"package", "activity"} :
           IsSub(Lower(termination[k]), Lower(obs)) => IsSub(termination[k], obs)
    /\ "must_contain_text" \in Configured =>
           LET needle == termination["must_contain_text"]
           IN  /\ needle = Strip(needle) /\ needle # ""
               /\ \A i \in 1..Len(state_norm) :
                      ~CiContains(state_norm[i].content_desc, needle)

EvaluatorsAgreeOnPlainInputs == OnSharedKeys /\ PlainInputs => (gs <=> et.ok)

\* all three predicates configured and satisfied for both evaluators
EvaluatorsAgreeWitness ==
    /\ OnSharedKeys /\ PlainInputs /\ Configured = SharedKeys
    /\ gs /\ et.ok

\* the package differs in case only: satisfied for evaluate_termination, not
\* for goal_satisfied
CaseOnlyWitness ==
    /\ OnSharedKeys /\ Configured = {"package"}
    /\ termination["package"] = "com.x" /\ obs = "Com.X/.Main"
    /\ ~gs /\ et.ok

====
